---- MODULE Spec2Model ----
(***************************************************************************)
(* A model of the RTA spectrum analyser: the frame processor (process in   *)
(* rtaProcessor.ts and getFrequencyData in the useAudioRta composable),    *)
(* the bar/line geometry and grid caches (rtaRender.ts) and the            *)
(* spectrogram ring buffer (spectrogram part of rtaProcessor.ts).          *)
(*                                                                         *)
(* The three components own disjoint state, so each has a specification    *)
(* of its own: Spec (frame processor), SpecSpectrogram, SpecRender.        *)
(*                                                                         *)
(* Numbers.  Pixel rows, columns, counters and dB values are integers.     *)
(* The ring is RingWidth columns wide where the source has 2048, so that   *)
(* the cursor wraps within the explored behaviours.  Linear power is       *)
(* counted in whole units of MIN_LINEAR_POWER, the dB range spans          *)
(* DbDecades decades with one table entry per 10 dB (120 dB and 8192       *)
(* entries in the source), and a smoothing or decay factor is a fraction   *)
(* <<numerator, denominator>>; divisions truncate.  Float32 rounding of    *)
(* stored values is not modelled.  The composable starts from the          *)
(* smallest settings its interface offers (MIN_BANDS bands, a 512-point    *)
(* FFT) where the source defaults to 128 bands and 8192 points.            *)
(* Frequencies are in hundredths of a hertz and lie on a grid of 32 steps  *)
(* per decade from 20 Hz to 20 kHz, so that log10 is a table lookup;       *)
(* canvas coordinates are in thousandths of a pixel; the renderer is fed   *)
(* band lists of 0, 2 and 3 bands.                                         *)
(***************************************************************************)
EXTENDS Integers, Sequences, FiniteSets, TLC

Min(a, b) == IF a < b THEN a ELSE b
Max(a, b) == IF a > b THEN a ELSE b

\* b to the power e, for a natural number e.
RECURSIVE IPow(_, _)
IPow(b, e) == IF e = 0 THEN 1 ELSE b * IPow(b, e - 1)


\* An array or buffer that is not allocated (null in the source).
Null == << >>

(***************************************************************************)
(*                           FRAME PROCESSOR                               *)
(***************************************************************************)

\* Decades covered by the dB range (12 in the source, where DB_MIN = -120).
DbDecades == 5
\* Frames of a session that are explored with every input; a session made of
\* one loud frame followed by silence is followed through its hold time and
\* MaxTicks frames beyond it.
MaxTicks == 2
\* Calls of the composable's setters that are explored.
MaxUpdates == 1

DB_MIN == -(10 * DbDecades)
DB_MAX == 0
DB_RANGE == DB_MAX - DB_MIN
LUT_SIZE == DbDecades + 1
LUT_SIZE_MINUS_1 == LUT_SIZE - 1

\* The unit of linear power.
MIN_LINEAR_POWER == 1
MAX_LINEAR_POWER == IPow(10, DbDecades)

\* dbToLinearLUT[i] = 10^(db/10) for db = DB_MIN + (i / LUT_SIZE_MINUS_1) * DB_RANGE.
dbToLinearLUT == [i \in 0 .. LUT_SIZE_MINUS_1 |-> IPow(10, i)]

\* linearToDbLUT[i] = 10 * log10 of the value a fraction i / LUT_SIZE_MINUS_1 of
\* the way, logarithmically, from MIN_LINEAR_POWER to MAX_LINEAR_POWER.
linearToDbLUT ==
  [i \in 0 .. LUT_SIZE_MINUS_1 |-> DB_MIN + (i * DB_RANGE) \div LUT_SIZE_MINUS_1]

\* A bin that holds NaN: every comparison with it is false and (NaN | 0) = 0.
NaN == 1000
IsNaN(d) == d = NaN

DbLutIndexFloor(db) ==
  IF IsNaN(db) THEN 0 ELSE ((db - DB_MIN) * LUT_SIZE_MINUS_1) \div DB_RANGE

\* ((db - DB_MIN) * LUT_SCALE + 0.5) | 0
DbLutIndex(db) ==
  IF IsNaN(db) THEN 0
  ELSE (2 * (db - DB_MIN) * LUT_SIZE_MINUS_1 + DB_RANGE) \div (2 * DB_RANGE)

fastDbToLinear(db) ==
  IF ~IsNaN(db) /\ db <= DB_MIN THEN MIN_LINEAR_POWER
  ELSE IF ~IsNaN(db) /\ db >= DB_MAX THEN MAX_LINEAR_POWER
  ELSE dbToLinearLUT[DbLutIndex(db)]

\* HalfDecades[k] is the least whole number of units whose log10 is at least
\* k - 1/2: the least linear value that the rounding of fastLinearToDb sends
\* to table entry k.
HalfDecades == <<4, 32, 317, 3163, 31623, 316228, 3162278>>

\* (((log(linear) - LOG_MIN_LINEAR) / LOG_LINEAR_RANGE) * LUT_SIZE_MINUS_1 + 0.5) | 0
LinearLutIndex(linear) ==
  Cardinality({k \in 1 .. LUT_SIZE_MINUS_1 : linear >= HalfDecades[k]})

fastLinearToDb(linear) ==
  IF linear <= MIN_LINEAR_POWER THEN DB_MIN
  ELSE IF linear >= MAX_LINEAR_POWER THEN DB_MAX
  ELSE LET index == LinearLutIndex(linear)
       IN  linearToDbLUT[IF index < LUT_SIZE THEN index ELSE LUT_SIZE_MINUS_1]

\* Math.pow(10, minDb * DB_TO_LINEAR_FACTOR), for minDb a multiple of 10 that is
\* at least DB_MIN.
MinLinearOf(minDb) == IPow(10, (minDb - DB_MIN) \div 10)

\* Fractions <<numerator, denominator>>.
OneMinus(f) == <<f[2] - f[1], f[2]>>
\* value < 0 ? 0 : value > 1 ? 1 : value
Clamp01(f) == IF f[1] < 0 THEN <<0, 1>> ELSE IF f[1] > f[2] THEN <<1, 1>> ELSE f

\* 20 * 10^(k/32) Hz in hundredths of a hertz, k = 0 .. 96: the three decades
\* from minFreq = 20 Hz to maxFreq = 20000 Hz in steps of 1/32 decade.
Pow10Grid ==
  << 2000, 2149, 2310, 2482, 2667, 2866, 3080, 3310,
     3557, 3822, 4107, 4413, 4743, 5097, 5477, 5885,
     6325, 6796, 7303, 7848, 8434, 9063, 9739, 10466,
     11247, 12086, 12988, 13957, 14998, 16117, 17319, 18611,
     20000, 21492, 23096, 24819, 26670, 28660, 30799, 33096,
     35566, 38219, 41071, 44135, 47427, 50966, 54768, 58855,
     63246, 67964, 73035, 78484, 84339, 90632, 97394, 104660,
     112468, 120859, 129876, 139566, 149979, 161168, 173193, 186114,
     200000, 214922, 230956, 248188, 266704, 286603, 307985, 330963,
     355656, 382191, 410705, 441347, 474275, 509659, 547684, 588545,
     632456, 679642, 730348, 784838, 843393, 906317, 973935, 1046598,
     1124683, 1208593, 1298763, 1395661, 1499788, 1611684, 1731929, 1861144,
     2000000 >>

CeilDiv(a, b) == (a + b - 1) \div b

\* 32 * log10(f / 20 Hz) for the frequencies of the grid.
LogTable ==
  [f \in {Pow10Grid[k] : k \in DOMAIN Pow10Grid} |->
     CHOOSE k \in 0 .. (Len(Pow10Grid) - 1) : Pow10Grid[k + 1] = f]
LogIndex(f) == LogTable[f]

RECURSIVE Gcd(_, _)
Gcd(a, b) == IF b = 0 THEN a ELSE Gcd(b, a % b)

\* freq / binWidth = freq * fftSize / sampleRate as a fraction in lowest terms
\* (freq in hundredths of a hertz), which keeps the products within 32 bits.
BinRatio(freq, sampleRate, fftSize) ==
  LET g == Gcd(fftSize, 100 * sampleRate)
  IN  <<freq * (fftSize \div g), (100 * sampleRate) \div g>>

\* Math.max(0, Math.floor(freqStart / binWidth))
BinStartOf(freqStart, sampleRate, fftSize) ==
  LET q == BinRatio(freqStart, sampleRate, fftSize) IN Max(0, q[1] \div q[2])

BinEndUnclamped(freqEnd, sampleRate, fftSize) ==
  LET q == BinRatio(freqEnd, sampleRate, fftSize) IN CeilDiv(q[1], q[2])

\* Math.min(halfFft, Math.ceil(freqEnd / binWidth))
BinEndOf(freqEnd, sampleRate, fftSize) ==
  LET q == BinRatio(freqEnd, sampleRate, fftSize)
  IN  Min(fftSize \div 2 - 1, CeilDiv(q[1], q[2]))

\* The band list for a sample rate whose half, if below 20000 Hz, is a frequency
\* of the grid, and a band count that divides the number of grid steps from
\* minFreq = 20 Hz to maxFreq = min(20000, sampleRate / 2).  Frequencies are in
\* hundredths of a hertz; binWidth = sampleRate / fftSize.
calculateBands(numBands, sampleRate, fftSize) ==
  LET maxFreq == Min(2000000, 50 * sampleRate)
      step    == LogIndex(maxFreq) \div numBands
  IN  [i \in 0 .. (numBands - 1) |->
        LET freqStart == Pow10Grid[i * step + 1]
            freqEnd   == Pow10Grid[(i + 1) * step + 1]
        IN  [freqStart  |-> freqStart,
             freqEnd    |-> freqEnd,
             freqCenter |-> Pow10Grid[i * step + step \div 2 + 1],
             binStart   |-> BinStartOf(freqStart, sampleRate, fftSize),
             binEnd     |-> BinEndOf(freqEnd, sampleRate, fftSize)]]

BinStartsOf(bandList) == [i \in DOMAIN bandList |-> bandList[i].binStart]
BinEndsOf(bandList) == [i \in DOMAIN bandList |-> bandList[i].binEnd]

\* A frame of frequency data: every bin holds `base` except bin `toneBin`, which
\* holds `tone` (toneBin = -1: no such bin).
FrameAt(frame, bin) == IF bin = frame.toneBin THEN frame.tone ELSE frame.base

SilentFrame == [base |-> DB_MIN - 10, toneBin |-> -1, tone |-> 0]
NaNFrame == [base |-> NaN, toneBin |-> -1, tone |-> 0]
LoudFrame == [base |-> 5, toneBin |-> -1, tone |-> 0]
ToneFrame == [base |-> DB_MIN - 10, toneBin |-> 2, tone |-> -25]
Frames == {SilentFrame, NaNFrame, LoudFrame, ToneFrame}

\* Every bin of the frame converts to the least linear power.
IsSilent(frame) ==
  /\ fastDbToLinear(frame.base) = MIN_LINEAR_POWER
  /\ frame.toneBin < 0 \/ fastDbToLinear(frame.tone) = MIN_LINEAR_POWER

\* The unrolled loop: blocks of eight bins from bin up to end8.
RECURSIVE SumBlocks(_, _, _)
SumBlocks(frame, bin, end8) ==
  IF bin < end8
  THEN fastDbToLinear(FrameAt(frame, bin)) + fastDbToLinear(FrameAt(frame, bin + 1))
       + fastDbToLinear(FrameAt(frame, bin + 2)) + fastDbToLinear(FrameAt(frame, bin + 3))
       + fastDbToLinear(FrameAt(frame, bin + 4)) + fastDbToLinear(FrameAt(frame, bin + 5))
       + fastDbToLinear(FrameAt(frame, bin + 6)) + fastDbToLinear(FrameAt(frame, bin + 7))
       + SumBlocks(frame, bin + 8, end8)
  ELSE 0

\* The remainder loop: the bins from bin to binEnd.
RECURSIVE SumRest(_, _, _)
SumRest(frame, bin, binEnd) ==
  IF bin <= binEnd
  THEN fastDbToLinear(FrameAt(frame, bin)) + SumRest(frame, bin + 1, binEnd)
  ELSE 0

\* Mutant: the bins left over by the blocks of eight are not added.
BandAverageOfBlocks(frame, binStart, binEnd) ==
  LET count == binEnd - binStart + 1
      end8  == binStart + (count \div 8) * 8
  IN  SumBlocks(frame, binStart, end8) \div count

\* sum * invCount
BandAverage(frame, binStart, binEnd) ==
  LET count == binEnd - binStart + 1
      end8  == binStart + (count \div 8) * 8
  IN  (SumBlocks(frame, binStart, end8) + SumRest(frame, end8, binEnd)) \div count

EmaSwapped(previous, invAlpha, avgClamped, alpha) ==
  (previous * alpha[1] * invAlpha[2] + avgClamped * invAlpha[1] * alpha[2])
    \div (invAlpha[2] * alpha[2])

\* smoothedLin[i] * invAlpha + avgClamped * alpha
Ema(previous, invAlpha, avgClamped, alpha) ==
  (previous * invAlpha[1] * alpha[2] + avgClamped * alpha[1] * invAlpha[2])
    \div (invAlpha[2] * alpha[2])

ClampLow(x, floor) == IF x > floor THEN x ELSE floor

DecayPeakUnclamped(peak, decay, floor) == (peak * decay[1]) \div decay[2]

\* decayed > minLinear ? decayed : minLinear
DecayPeak(peak, decay, floor) == ClampLow((peak * decay[1]) \div decay[2], floor)

HoldTickStuck(counter) == counter

\* holdCounters[i]--
HoldTick(counter) == counter - 1

\* A store that starts the hold one frame too long.
Uint16OneMore(n) == (n + 1) % 65536

\* A store into the Uint16Array of hold counters.
Uint16(n) == n % 65536

MIN_BANDS == 16
MAX_BANDS == 14844
PEAK_HOLD_FRAMES == 30

\* The settings the composable starts from (see the note on numbers above).
DEFAULT_PARAMS ==
  [fftSize |-> 512, numBands |-> MIN_BANDS, extraSmoothing |-> <<3, 10>>,
   peakHold |-> TRUE, peakDecay |-> <<49, 50>>, minDb |-> DB_MIN + 20]

\* Inputs of the composable's setters and of the audio context.
SampleRates == {48000}
FftSizes == {512, 1024}
NumBandsInputs == {8, 16, 24}
SmoothingInputs == {<<-1, 2>>, <<3, 2>>}
DecayInputs == {<<1, 2>>, <<3, 2>>}

\* Inputs of the library: the arguments of calculateBands and
\* createProcessingStateF32, and the params of a process() call.
Sessions ==
  { [numBands |-> 3, sampleRate |-> 48000, fftSize |-> 64, minDb |-> DB_MIN],
    [numBands |-> 2, sampleRate |-> 44100, fftSize |-> 64, minDb |-> DB_MIN + 20] }
ProcessParams ==
  << [minDb |-> DB_MIN + 20, extraSmoothing |-> <<3, 10>>, peakHold |-> TRUE,
      peakDecay |-> <<49, 50>>, peakHoldFrames |-> 2],
     [minDb |-> DB_MIN + 20, extraSmoothing |-> <<1, 2>>, peakHold |-> TRUE,
      peakDecay |-> <<1, 8>>, peakHoldFrames |-> 1],
     [minDb |-> DB_MIN + 20, extraSmoothing |-> <<3, 2>>, peakHold |-> TRUE,
      peakDecay |-> <<1, 2>>, peakHoldFrames |-> 0],
     [minDb |-> DB_MIN + 20, extraSmoothing |-> <<0, 1>>, peakHold |-> FALSE,
      peakDecay |-> <<49, 50>>, peakHoldFrames |-> 2] >>

VARIABLES
  impl,              \* "composable" (useAudioRta) or "library" (rtaProcessor.ts)
  analyserNode,      \* the audio context and its analyser node exist
  sampleRate,
  params,            \* the composable's params; the params of the last process() call
  cachedAlpha, cachedInvAlpha, cachedPeakDecay, cachedPeakHold,
  minLinear,         \* cachedMinLinear; state.minLinear
  bandCount,         \* cachedBandsLength; prepared.bandCount
  bands, binStarts, binEnds,
  smoothedLinear, peaksLinear, peakHoldCounters, smoothedDb, peaksDb,
  op,                \* the last operation
  ticks,             \* frames processed since the arrays were created, up to MaxTicks
  quiet,             \* -1: no loud frame since the arrays were created; k >= 0: one
                     \* loud frame that raised a peak, then k silent frames under the
                     \* same settings and no peak raised since; -2: anything else
  burst,             \* the bands whose peak the loud frame raised
  updates,           \* calls of the composable's setters so far, up to MaxUpdates
  lastFrame          \* <<the frame>> if the last operation processed one, else Null

procVars ==
  <<impl, analyserNode, sampleRate, params, cachedAlpha, cachedInvAlpha,
    cachedPeakDecay, cachedPeakHold, minLinear, bandCount, bands, binStarts,
    binEnds, smoothedLinear, peaksLinear, peakHoldCounters, smoothedDb, peaksDb,
    op, ticks, quiet, burst, updates, lastFrame>>

stateArrays == <<smoothedLinear, peaksLinear, peakHoldCounters, smoothedDb, peaksDb>>
bandModel == <<bandCount, bands, binStarts, binEnds>>
cachedCoefs == <<cachedAlpha, cachedInvAlpha, cachedPeakDecay, cachedPeakHold>>
scenario == <<ticks, quiet, burst>>

Filled(n, v) == [i \in 0 .. (n - 1) |-> v]

\* The hold time in force: PEAK_HOLD_FRAMES in the composable, the params'
\* peakHoldFrames in the library.
HoldFrames(p) == IF impl = "composable" THEN PEAK_HOLD_FRAMES ELSE p.peakHoldFrames

\* One band of process(): the new entries of the band.
ProcessBand(i, frame, p) ==
  LET avg      == BandAverage(frame, binStarts[i], binEnds[i])
      smoothed == Ema(smoothedLinear[i], p.extraSmoothing,
                      ClampLow(avg, minLinear), OneMinus(p.extraSmoothing))
      peak     == peaksLinear[i]
      counter  == peakHoldCounters[i]
  IN  [smoothedLinear   |-> ClampLow(smoothed, minLinear),
       peaksLinear      |-> IF ~p.peakHold THEN peak
                            ELSE IF smoothed > peak THEN smoothed
                            ELSE IF counter > 0 THEN peak
                            ELSE DecayPeak(peak, p.peakDecay, minLinear),
       peakHoldCounters |-> IF ~p.peakHold THEN counter
                            ELSE IF smoothed > peak THEN Uint16(p.peakHoldFrames)
                            ELSE IF counter > 0 THEN HoldTick(counter)
                            ELSE counter,
       smoothedDb       |-> smoothedDb[i],
       peaksDb          |-> peaksDb[i]]

\* One band of getFrequencyData(): the new entries of the band.
FrequencyBand(i, frame) ==
  LET avg             == BandAverage(frame, binStarts[i], binEnds[i])
      smoothed        == Ema(smoothedLinear[i], cachedInvAlpha,
                             ClampLow(avg, minLinear), cachedAlpha)
      smoothedClamped == ClampLow(smoothed, minLinear)
      currentPeakLin  == peaksLinear[i]
      counter         == peakHoldCounters[i]
      peakLin         == IF smoothedClamped > currentPeakLin THEN smoothedClamped
                         ELSE IF counter > 0 THEN currentPeakLin
                         ELSE DecayPeak(currentPeakLin, cachedPeakDecay, minLinear)
  IN  [smoothedLinear   |-> smoothedClamped,
       peaksLinear      |-> IF cachedPeakHold THEN peakLin ELSE currentPeakLin,
       peakHoldCounters |-> IF ~cachedPeakHold THEN counter
                            ELSE IF smoothedClamped > currentPeakLin
                              THEN Uint16(PEAK_HOLD_FRAMES)
                            ELSE IF counter > 0 THEN HoldTick(counter)
                            ELSE counter,
       smoothedDb       |-> fastLinearToDb(smoothedClamped),
       peaksDb          |-> IF cachedPeakHold THEN fastLinearToDb(peakLin)
                            ELSE peaksDb[i]]

\* The bands whose peak a frame raised.
Raised(result) == {i \in DOMAIN result : result[i].peaksLinear > peaksLinear[i]}

QuietAfter(frame, sameParams, result) ==
  IF quiet = -1
  THEN IF IsSilent(frame) THEN -1 ELSE IF Raised(result) # {} THEN 0 ELSE -2
  ELSE IF quiet >= 0 /\ IsSilent(frame) /\ sameParams /\ Raised(result) = {}
  THEN quiet + 1
  ELSE -2

BurstAfter(frame, sameParams, result) ==
  IF QuietAfter(frame, sameParams, result) < 0 THEN {}
  ELSE IF quiet = -1 THEN Raised(result)
  ELSE burst

\* The frames explored from a state.
FrameAllowed(frame, hold, sameParams) ==
  \/ ticks < MaxTicks
  \/ quiet >= 0 /\ quiet < hold + MaxTicks /\ IsSilent(frame) /\ sameParams

\* The arrays after a frame, from the per-band results.
StoreFrame(frame, sameParams, result) ==
  /\ smoothedLinear' = [i \in DOMAIN result |-> result[i].smoothedLinear]
  /\ peaksLinear' = [i \in DOMAIN result |-> result[i].peaksLinear]
  /\ peakHoldCounters' = [i \in DOMAIN result |-> result[i].peakHoldCounters]
  /\ smoothedDb' = [i \in DOMAIN result |-> result[i].smoothedDb]
  /\ peaksDb' = [i \in DOMAIN result |-> result[i].peaksDb]
  /\ ticks' = Min(ticks + 1, MaxTicks)
  /\ quiet' = QuietAfter(frame, sameParams, result)
  /\ burst' = BurstAfter(frame, sameParams, result)
  /\ lastFrame' = <<frame>>

\* A parameter change ends the single-burst scenario once it has begun.
QuietAfterUpdate == IF quiet = -1 THEN -1 ELSE -2

(* ---- the library: calculateBands, prepareBands, createProcessingStateF32,  *)
(* ---- process                                                               *)

CreateSession(cfg) ==
  /\ impl = "library"
  /\ LET bandList == calculateBands(cfg.numBands, cfg.sampleRate, cfg.fftSize)
     IN  /\ bands' = bandList
         /\ bandCount' = Cardinality(DOMAIN bandList)
         /\ binStarts' = BinStartsOf(bandList)
         /\ binEnds' = BinEndsOf(bandList)
  /\ sampleRate' = cfg.sampleRate
  /\ minLinear' = MinLinearOf(cfg.minDb)
  /\ smoothedLinear' = Filled(cfg.numBands, MinLinearOf(cfg.minDb))
  /\ peaksLinear' = Filled(cfg.numBands, MinLinearOf(cfg.minDb))
  /\ peakHoldCounters' = Filled(cfg.numBands, 0)
  /\ smoothedDb' = Filled(cfg.numBands, cfg.minDb)
  /\ peaksDb' = Filled(cfg.numBands, cfg.minDb)
  /\ ticks' = 0 /\ quiet' = -1 /\ burst' = {}
  /\ op' = "createSession"
  /\ lastFrame' = Null
  /\ UNCHANGED <<impl, analyserNode, params, cachedCoefs, updates>>

Process(frame, p) ==
  /\ impl = "library"
  /\ smoothedLinear # Null
  /\ bandCount # 0
  /\ FrameAllowed(frame, p.peakHoldFrames, p = params)
  /\ LET result == [i \in 0 .. (bandCount - 1) |-> ProcessBand(i, frame, p)]
     IN  StoreFrame(frame, quiet = -1 \/ p = params, result)
  /\ params' = p
  /\ op' = "frame"
  /\ UNCHANGED <<impl, analyserNode, sampleRate, cachedCoefs, minLinear, bandModel,
                 updates>>

(* ---- the composable: useAudioRta                                           *)

\* initializeArrays() under the params p and the sample rate `rate`.
initializeArrays(p, rate) ==
  /\ LET bandList == calculateBands(p.numBands, rate, p.fftSize)
     IN  /\ bands' = bandList
         /\ bandCount' = Cardinality(DOMAIN bandList)
         /\ binStarts' = BinStartsOf(bandList)
         /\ binEnds' = BinEndsOf(bandList)
  /\ minLinear' = MinLinearOf(p.minDb)
  /\ smoothedLinear' = Filled(p.numBands, MinLinearOf(p.minDb))
  /\ peaksLinear' = Filled(p.numBands, MinLinearOf(p.minDb))
  /\ peakHoldCounters' = Filled(p.numBands, 0)
  /\ smoothedDb' = Filled(p.numBands, p.minDb)
  /\ peaksDb' = Filled(p.numBands, p.minDb)
  /\ cachedAlpha' = OneMinus(p.extraSmoothing)
  /\ cachedInvAlpha' = p.extraSmoothing
  /\ cachedPeakDecay' = p.peakDecay
  /\ cachedPeakHold' = p.peakHold
  /\ ticks' = 0 /\ quiet' = -1 /\ burst' = {}

InitAudioContext(rate) ==
  /\ impl = "composable"
  /\ ~analyserNode
  /\ analyserNode' = TRUE
  /\ sampleRate' = rate
  /\ initializeArrays(params, rate)
  /\ op' = "initAudioContext"
  /\ lastFrame' = Null
  /\ UNCHANGED <<impl, params, updates>>

UpdateFftSize(size) ==
  /\ impl = "composable"
  /\ updates < MaxUpdates
  /\ updates' = updates + 1
  /\ params' = [params EXCEPT !.fftSize = size]
  /\ IF analyserNode
     THEN initializeArrays([params EXCEPT !.fftSize = size], sampleRate)
     ELSE UNCHANGED <<bandModel, stateArrays, cachedCoefs, minLinear, scenario>>
  /\ op' = "updateFftSize"
  /\ lastFrame' = Null
  /\ UNCHANGED <<impl, analyserNode, sampleRate>>

UpdateExtraSmoothing(value) ==
  /\ impl = "composable"
  /\ updates < MaxUpdates
  /\ updates' = updates + 1
  /\ params' = [params EXCEPT !.extraSmoothing = Clamp01(value)]
  /\ cachedAlpha' = OneMinus(Clamp01(value))
  /\ cachedInvAlpha' = Clamp01(value)
  /\ quiet' = QuietAfterUpdate
  /\ burst' = IF quiet = -1 THEN burst ELSE {}
  /\ op' = "updateExtraSmoothing"
  /\ lastFrame' = Null
  /\ UNCHANGED <<impl, analyserNode, sampleRate, cachedPeakDecay, cachedPeakHold,
                 minLinear, bandModel, stateArrays, ticks>>

UpdatePeakHold(enabled) ==
  /\ impl = "composable"
  /\ updates < MaxUpdates
  /\ updates' = updates + 1
  /\ params' = [params EXCEPT !.peakHold = enabled]
  /\ cachedPeakHold' = enabled
  /\ IF ~enabled /\ peaksLinear # Null /\ peaksDb # Null
     THEN /\ peaksLinear' = [i \in DOMAIN peaksLinear |-> minLinear]
          /\ peaksDb' = [i \in DOMAIN peaksDb |-> params.minDb]
     ELSE UNCHANGED <<peaksLinear, peaksDb>>
  /\ quiet' = QuietAfterUpdate
  /\ burst' = IF quiet = -1 THEN burst ELSE {}
  /\ op' = "updatePeakHold"
  /\ lastFrame' = Null
  /\ UNCHANGED <<impl, analyserNode, sampleRate, cachedAlpha, cachedInvAlpha,
                 cachedPeakDecay, minLinear, bandModel, smoothedLinear,
                 peakHoldCounters, smoothedDb, ticks>>

UpdatePeakDecay(value) ==
  /\ impl = "composable"
  /\ updates < MaxUpdates
  /\ updates' = updates + 1
  /\ params' = [params EXCEPT !.peakDecay = Clamp01(value)]
  /\ cachedPeakDecay' = Clamp01(value)
  /\ quiet' = QuietAfterUpdate
  /\ burst' = IF quiet = -1 THEN burst ELSE {}
  /\ op' = "updatePeakDecay"
  /\ lastFrame' = Null
  /\ UNCHANGED <<impl, analyserNode, sampleRate, cachedAlpha, cachedInvAlpha,
                 cachedPeakHold, minLinear, bandModel, stateArrays, ticks>>

\* num < MIN_BANDS ? MIN_BANDS : num > MAX_BANDS ? MAX_BANDS : num
ClampBands(num) ==
  IF num < MIN_BANDS THEN MIN_BANDS ELSE IF num > MAX_BANDS THEN MAX_BANDS ELSE num

UpdateNumBands(num) ==
  /\ impl = "composable"
  /\ updates < MaxUpdates
  /\ updates' = updates + 1
  /\ params' = [params EXCEPT !.numBands = ClampBands(num)]
  /\ initializeArrays([params EXCEPT !.numBands = ClampBands(num)], sampleRate)
  /\ op' = "updateNumBands"
  /\ lastFrame' = Null
  /\ UNCHANGED <<impl, analyserNode, sampleRate>>

\* getFrequencyData() returns null before the arrays and the analyser exist.
NotReady == ~analyserNode \/ smoothedLinear = Null \/ bandCount = 0

GetFrequencyData(frame) ==
  /\ impl = "composable"
  /\ IF NotReady
     THEN /\ op' = "getFrequencyData: null"
          /\ lastFrame' = Null
          /\ UNCHANGED <<stateArrays, scenario>>
     ELSE /\ FrameAllowed(frame, PEAK_HOLD_FRAMES, TRUE)
          /\ LET result == [i \in 0 .. (bandCount - 1) |-> FrequencyBand(i, frame)]
             IN  StoreFrame(frame, TRUE, result)
          /\ op' = "frame"
  /\ UNCHANGED <<impl, analyserNode, sampleRate, params, cachedCoefs, minLinear,
                 bandModel, updates>>

Cleanup ==
  /\ impl = "composable"
  /\ analyserNode' = FALSE
  /\ op' = "cleanup"
  /\ lastFrame' = Null
  /\ UNCHANGED <<impl, sampleRate, params, cachedCoefs, minLinear, bandModel,
                 stateArrays, scenario, updates>>

ProcInit(m) ==
  /\ impl = m
  /\ analyserNode = FALSE
  /\ sampleRate = 44100
  /\ params = IF m = "composable" THEN DEFAULT_PARAMS ELSE ProcessParams[1]
  /\ cachedAlpha = OneMinus(DEFAULT_PARAMS.extraSmoothing)
  /\ cachedInvAlpha = DEFAULT_PARAMS.extraSmoothing
  /\ cachedPeakDecay = DEFAULT_PARAMS.peakDecay
  /\ cachedPeakHold = DEFAULT_PARAMS.peakHold
  /\ minLinear = MinLinearOf(DEFAULT_PARAMS.minDb)
  /\ bandCount = 0
  /\ bands = Null
  /\ binStarts = Null
  /\ binEnds = Null
  /\ smoothedLinear = Null
  /\ peaksLinear = Null
  /\ peakHoldCounters = Null
  /\ smoothedDb = Null
  /\ peaksDb = Null
  /\ op = "init"
  /\ ticks = 0
  /\ quiet = -1
  /\ burst = {}
  /\ updates = 0
  /\ lastFrame = Null

(* ---- the composable's variant that averages and smooths in decibels        *)
(* ---- (impl = "decibel")                                                    *)

\* A bin at or below this level is silence ("value > -200").
SILENCE_LEVEL == -200

\* The decibel range of the variant's output.
DecMinDb == DEFAULT_PARAMS.minDb
DecMaxDb == DB_MAX

\* A frame of -Infinity, which is what the analyser reports for digital silence,
\* and a frame of NaN with one tone in it.
MutedFrame == [base |-> SILENCE_LEVEL - 100, toneBin |-> -1, tone |-> 0]
NaNToneFrame == [base |-> NaN, toneBin |-> 2, tone |-> -25]
DecFrames == Frames \cup {MutedFrame, NaNToneFrame}

VARIABLES
  decAnalyser,       \* analyserNode and the arrays exist
  decBands,          \* bands
  freqLen,           \* frequencyData.length
  smoothedData,
  peakLevels,        \* peakData
  emaInvAlpha,       \* emaInvAlpha; emaAlpha is 1 - emaInvAlpha
  decPeakHold,       \* cachedPeakHold
  decOp,             \* the last operation
  decTicks,          \* frames processed so far, up to MaxTicks
  decUpdates,        \* calls of the setters so far, up to MaxUpdates
  decFrame,          \* <<the frame>> if the last operation processed one, else Null
  decRaised          \* the bands whose peak the last operation, a frame, raised

decVars ==
  <<decAnalyser, decBands, freqLen, smoothedData, peakLevels, emaInvAlpha,
    decPeakHold, decOp, decTicks, decUpdates, decFrame, decRaised>>

ValidBinNoNaNTest(value) == value > SILENCE_LEVEL

\* value > -200 && value === value
ValidBin(value) == ~IsNaN(value) /\ value > SILENCE_LEVEL

\* The bins of a band that are summed: inside the frame and valid.
ValidBins(frame, binStart, binEnd, len) ==
  {bin \in binStart .. binEnd : bin < len /\ ValidBin(FrameAt(frame, bin))}

RECURSIVE SumBins(_, _)
SumBins(frame, bins) ==
  IF bins = {} THEN 0
  ELSE LET bin == CHOOSE b \in bins : TRUE
       IN  FrameAt(frame, bin) + SumBins(frame, bins \ {bin})

\* count > 0 ? sum / count : minDb, then avgDb < minDb ? minDb : avgDb
ClampedAverageDb(frame, binStart, binEnd, len) ==
  LET valid == ValidBins(frame, binStart, binEnd, len)
      avgDb == IF valid # {} THEN SumBins(frame, valid) \div Cardinality(valid)
               ELSE DecMinDb
  IN  IF avgDb < DecMinDb THEN DecMinDb ELSE avgDb

\* prevSmoothed * invAlpha + clampedAvg * alpha, limited to [minDb, maxDb]
SmoothDb(prevSmoothed, invAlpha, clampedAvg) ==
  LET newSmoothed == (prevSmoothed * invAlpha[1] + clampedAvg * (invAlpha[2] - invAlpha[1]))
                       \div invAlpha[2]
  IN  IF newSmoothed < DecMinDb THEN DecMinDb
      ELSE IF newSmoothed > DecMaxDb THEN DecMaxDb
      ELSE newSmoothed

\* currentPeak * decay + minDb * (1 - decay), not below minDb
DecayPeakDb(currentPeak, decay) ==
  LET decayedPeak == (currentPeak * decay[1] + DecMinDb * (decay[2] - decay[1])) \div decay[2]
  IN  IF decayedPeak < DecMinDb THEN DecMinDb ELSE decayedPeak

DecInit ==
  /\ decAnalyser = FALSE
  /\ decBands = Null
  /\ freqLen = 0
  /\ smoothedData = Null
  /\ peakLevels = Null
  /\ emaInvAlpha = DEFAULT_PARAMS.extraSmoothing
  /\ decPeakHold = DEFAULT_PARAMS.peakHold
  /\ decOp = "init"
  /\ decTicks = 0
  /\ decUpdates = 0
  /\ decFrame = Null
  /\ decRaised = {}

\* initAudioContext(): creates the analyser and calls initializeArrays().
DecInitAudioContext(rate) ==
  /\ impl = "decibel"
  /\ ~decAnalyser
  /\ decAnalyser' = TRUE
  /\ decBands' = calculateBands(DEFAULT_PARAMS.numBands, rate, DEFAULT_PARAMS.fftSize)
  /\ freqLen' = DEFAULT_PARAMS.fftSize \div 2
  /\ smoothedData' = Filled(DEFAULT_PARAMS.numBands, DecMinDb)
  /\ peakLevels' = Filled(DEFAULT_PARAMS.numBands, DecMinDb)
  /\ decOp' = "initAudioContext"
  /\ decFrame' = Null
  /\ decRaised' = {}
  /\ UNCHANGED <<emaInvAlpha, decPeakHold, decTicks, decUpdates>>

DecUpdateExtraSmoothing(value) ==
  /\ impl = "decibel"
  /\ decUpdates < MaxUpdates
  /\ decUpdates' = decUpdates + 1
  /\ emaInvAlpha' = Clamp01(value)
  /\ decOp' = "updateExtraSmoothing"
  /\ decFrame' = Null
  /\ decRaised' = {}
  /\ UNCHANGED <<decAnalyser, decBands, freqLen, smoothedData, peakLevels, decPeakHold,
                 decTicks>>

DecUpdatePeakHold(enabled) ==
  /\ impl = "decibel"
  /\ decUpdates < MaxUpdates
  /\ decUpdates' = decUpdates + 1
  /\ decPeakHold' = enabled
  /\ IF ~enabled /\ peakLevels # Null
     THEN peakLevels' = [i \in DOMAIN peakLevels |-> DecMinDb]
     ELSE UNCHANGED peakLevels
  /\ decOp' = "updatePeakHold"
  /\ decFrame' = Null
  /\ decRaised' = {}
  /\ UNCHANGED <<decAnalyser, decBands, freqLen, smoothedData, emaInvAlpha, decTicks>>

\* getFrequencyData() when the analyser has filled frequencyData with `frame`.
DecGetFrequencyData(frame) ==
  /\ impl = "decibel"
  /\ decAnalyser
  /\ decTicks < MaxTicks
  /\ decTicks' = decTicks + 1
  /\ smoothedData' =
       [i \in DOMAIN smoothedData |->
          SmoothDb(smoothedData[i], emaInvAlpha,
                   ClampedAverageDb(frame, decBands[i].binStart, decBands[i].binEnd, freqLen))]
  /\ peakLevels' =
       [i \in DOMAIN peakLevels |->
          IF ~decPeakHold THEN peakLevels[i]
          ELSE IF smoothedData'[i] > peakLevels[i] THEN smoothedData'[i]
          ELSE DecayPeakDb(peakLevels[i], DEFAULT_PARAMS.peakDecay)]
  /\ decOp' = "frame"
  /\ decFrame' = <<frame>>
  /\ decRaised' =
       IF decPeakHold THEN {i \in DOMAIN peakLevels : peakLevels'[i] > peakLevels[i]} ELSE {}
  /\ UNCHANGED <<decAnalyser, decBands, freqLen, emaInvAlpha, decPeakHold, decUpdates>>

(***************************************************************************)
(*                    GEOMETRY CACHE AND GRID CACHE                        *)
(***************************************************************************)

\* Largest canvas side, in units of 200 pixels.
MaxSide == 4

\* Canvas sides in pixels.
Sides == {200 * k : k \in 3 .. MaxSide}

\* The sizes the component's container takes: it starts at 800 by 600 and is
\* resized along one side.
ContainerSizes == {<<w, 600>> : w \in Sides} \cup {<<800, h>> : h \in Sides}

DisplayModes == {"bars", "line"}
DbRanges == {<<-100, 0>>, <<-60, -10>>}
\* <<minFreq, maxFreq>> in hundredths of a hertz, as the band frequencies.
FreqRanges == {<<2000, 2000000>>, <<20000, 2000000>>, <<2000, 200000>>}

FREQUENCY_MARKERS == <<20, 50, 100, 200, 500, 1000, 2000, 5000, 10000, 20000>>
DB_MARKERS == <<-90, -80, -70, -60, -50, -40, -30, -20, -10, 0>>

\* The band lists handed to the renderer: none before the audio is set up.
BandLists == {Null, calculateBands(2, 48000, 512), calculateBands(3, 48000, 512)}

\* Band data of the length of the band list, and one entry shorter.
BandDataFor(bandList) ==
  LET n == Cardinality(DOMAIN bandList)
  IN  {[i \in 0 .. (n - 1) |-> -20 - 10 * i], [i \in 0 .. (n - 2) |-> -40]}

\* Band data one entry longer than the band list, and empty band data.
LongAndEmptyData(bandList) ==
  {[i \in 0 .. Cardinality(DOMAIN bandList) |-> -20 - 10 * i], Null}

\* props.bandData of the component: null until there are bands.
PropsBandData(bandList) ==
  IF bandList = Null THEN {Null}
  ELSE {[i \in DOMAIN bandList |-> -20 - 10 * i]}

\* ((log10(clamped f) - logMin) / logRange) * width, in thousandths of a pixel.
FreqX(f, width, minFreq, maxFreq) ==
  ((LogIndex(Max(minFreq, Min(maxFreq, f))) - LogIndex(minFreq)) * width * 1000)
    \div (LogIndex(maxFreq) - LogIndex(minFreq))

\* h - hInv * db + hOff, in thousandths of a pixel.
DbY(db, height, minDb, maxDb) ==
  height * 1000 - (height * 1000 * (db - minDb)) \div (maxDb - minDb)

VARIABLES
  host,              \* "component" (RtaCanvas) or "library" (direct calls of rtaRender.ts)
  cache,             \* Null or <<the RenderCache>>
  gridCanvas,        \* Null or <<the off-screen grid surface>>
  gridConfig,        \* the key the grid surface was drawn for; << >> is ""
  canvasWidth, canvasHeight,
  displayMode, viewDb,   \* props.displayMode, <<props.minDb, props.maxDb>>
  rOp,               \* the last operation
  call,              \* Null, or <<width, height, minFreq, maxFreq, bands>> of the last
                     \* operation if it was a renderRta call that reached ensureCache
  cacheUse,          \* what ensureCache did in that call
  readers,           \* the functions that read the cache in that call
  gridUse,           \* what renderGrid did in the last operation, if it ran
  lastGridKey,       \* the key of the last renderGrid call
  clearedSince,      \* clearGridCache or clearAllCaches ran since that call
  drawn              \* Null, or <<what the renderRta call of the last operation was
                     \* given and which bands it plotted>>

rndVars ==
  <<host, cache, gridCanvas, gridConfig, canvasWidth, canvasHeight, displayMode, viewDb,
    rOp, call, cacheUse, readers, gridUse, lastGridKey, clearedSince, drawn>>

component == <<canvasWidth, canvasHeight, displayMode, viewDb>>
gridCache == <<gridCanvas, gridConfig>>
gridGhosts == <<gridUse, lastGridKey, clearedSince>>
cacheGhosts == <<call, cacheUse, readers>>

\* A number inside the template string of the grid key: a minus sign, if any,
\* then the digits.
Dash == -1
Tokens(n) == IF n < 0 THEN <<Dash, -n>> ELSE <<n>>

\* `${width}-${height}-${minDb}-${maxDb}-${minFreq}-${maxFreq}`
GridKey(width, height, minDb, maxDb, minFreq, maxFreq) ==
  Tokens(width) \o <<Dash>> \o Tokens(height) \o <<Dash>> \o Tokens(minDb) \o <<Dash>>
    \o Tokens(maxDb) \o <<Dash>> \o Tokens(minFreq) \o <<Dash>> \o Tokens(maxFreq)

GridNeverCached(configKey) == FALSE

\* gridCanvas && gridConfig === configKey
GridIsCached(configKey) == gridCanvas # Null /\ gridConfig = configKey

\* The surface renderGrid draws.
GridSurface(width, height, minDb, maxDb, minFreq, maxFreq) ==
  [width  |-> width,
   height |-> height,
   freqLines |-> {k \in DOMAIN FREQUENCY_MARKERS :
                    /\ FREQUENCY_MARKERS[k] * 100 >= minFreq
                    /\ FREQUENCY_MARKERS[k] * 100 <= maxFreq},
   dbLines |-> {DbY(DB_MARKERS[k], height, minDb, maxDb) :
                  k \in {j \in DOMAIN DB_MARKERS :
                           DB_MARKERS[j] >= minDb /\ DB_MARKERS[j] <= maxDb}}]

\* renderGrid(width, height, minDb, maxDb, minFreq, maxFreq)
RenderGrid(width, height, minDb, maxDb, minFreq, maxFreq) ==
  LET configKey == GridKey(width, height, minDb, maxDb, minFreq, maxFreq)
  IN  /\ IF GridIsCached(configKey)
         THEN /\ gridUse' = "reused"
              /\ UNCHANGED <<gridCanvas, gridConfig>>
         ELSE /\ gridUse' = "drawn"
              /\ gridCanvas' = <<GridSurface(width, height, minDb, maxDb, minFreq, maxFreq)>>
              /\ gridConfig' = configKey
      /\ lastGridKey' = configKey
      /\ clearedSince' = FALSE

CacheKey(c) == <<c.lastWidth, c.lastHeight, c.lastMinFreq, c.lastMaxFreq, c.lastBandsLength>>

NeedsRebuildIgnoringBands(width, height, bandList, minFreq, maxFreq) ==
  \/ cache = Null
  \/ cache[1].lastWidth # width
  \/ cache[1].lastHeight # height
  \/ cache[1].lastMinFreq # minFreq
  \/ cache[1].lastMaxFreq # maxFreq

NeedsRebuildIgnoringHeight(width, height, bandList, minFreq, maxFreq) ==
  \/ cache = Null
  \/ cache[1].lastWidth # width
  \/ cache[1].lastMinFreq # minFreq
  \/ cache[1].lastMaxFreq # maxFreq
  \/ cache[1].lastBandsLength # Cardinality(DOMAIN bandList)

NeedsRebuild(width, height, bandList, minFreq, maxFreq) ==
  \/ cache = Null
  \/ cache[1].lastWidth # width
  \/ cache[1].lastHeight # height
  \/ cache[1].lastMinFreq # minFreq
  \/ cache[1].lastMaxFreq # maxFreq
  \/ cache[1].lastBandsLength # Cardinality(DOMAIN bandList)

\* The cache ensureCache builds.
BuildCache(width, height, bandList, minFreq, maxFreq) ==
  [xCenters |-> [i \in DOMAIN bandList |->
                   FreqX(bandList[i].freqCenter, width, minFreq, maxFreq)],
   xStarts |-> [i \in DOMAIN bandList |->
                  FreqX(bandList[i].freqStart, width, minFreq, maxFreq)],
   barWidths |-> [i \in DOMAIN bandList |->
                    Max(1000, FreqX(bandList[i].freqEnd, width, minFreq, maxFreq)
                              - FreqX(bandList[i].freqStart, width, minFreq, maxFreq)
                              - 1000)],
   yCoords |-> [i \in DOMAIN bandList |-> 0],
   barGradient |-> Null,
   lineGradient |-> Null,
   lastWidth |-> width,
   lastHeight |-> height,
   lastMinFreq |-> minFreq,
   lastMaxFreq |-> maxFreq,
   lastBandsLength |-> Cardinality(DOMAIN bandList)]

ensureCache(width, height, bandList, minFreq, maxFreq) ==
  IF NeedsRebuild(width, height, bandList, minFreq, maxFreq)
  THEN BuildCache(width, height, bandList, minFreq, maxFreq)
  ELSE cache[1]

\* ctx.createLinearGradient(0, 0, 0, height), kept in the cache once created.
GradientFor(existing, height) == IF existing = Null THEN <<height>> ELSE existing

\* The first n y coordinates replaced by those of the band data.
WithYCoords(c, n, bandData, height, minDb, maxDb) ==
  [c EXCEPT !.yCoords = [i \in DOMAIN c.yCoords |->
                           IF i < n THEN DbY(bandData[i], height, minDb, maxDb)
                           ELSE c.yCoords[i]]]

\* The cache after renderBars.
BarsCache(c, config, bandList, bandData) ==
  LET n == Min(Cardinality(DOMAIN bandList), Cardinality(DOMAIN bandData))
  IN  IF n = 0 THEN c
      ELSE [WithYCoords(c, n, bandData, config.height, config.minDb, config.maxDb)
              EXCEPT !.barGradient = GradientFor(c.barGradient, config.height)]

\* The cache after renderLine.
LineCache(c, config, bandList, bandData) ==
  LET n == Min(Cardinality(DOMAIN bandList), Cardinality(DOMAIN bandData))
  IN  IF n < 2 THEN c
      ELSE [WithYCoords(c, n, bandData, config.height, config.minDb, config.maxDb)
              EXCEPT !.lineGradient = GradientFor(c.lineGradient, config.height)]


\* The functions that read the cache in a renderRta call that reached ensureCache.
ReadersOf(config, bandList, bandData, peakData) ==
  LET n        == Min(Cardinality(DOMAIN bandList), Cardinality(DOMAIN bandData))
      numBands == Min(Cardinality(DOMAIN bandList), Cardinality(DOMAIN peakData))
  IN  (IF config.displayMode = "bars" THEN {"renderBars"}
       ELSE IF n >= 2 THEN {"renderLine"} ELSE {})
      \cup (IF config.showPeaks /\ peakData # Null /\ numBands # 0
            THEN {"renderPeaks"} ELSE {})

\* The bands renderBars or renderLine plots: those whose y coordinate it
\* computes from bandData and whose x coordinates it reads from the cache.
SpectrumPlotted(config, bandList, bandData) ==
  LET n == Min(Cardinality(DOMAIN bandList), Cardinality(DOMAIN bandData))
  IN  IF config.displayMode = "line" /\ n < 2 THEN {} ELSE 0 .. (n - 1)

\* The bands renderPeaks joins by a line.
PeaksPlotted(config, bandList, peakData) ==
  IF config.showPeaks /\ peakData # Null
  THEN 0 .. (Min(Cardinality(DOMAIN bandList), Cardinality(DOMAIN peakData)) - 1)
  ELSE {}

\* What a renderRta call was given and what it plotted.
Drawn(config, bandList, bandData, peakData, spectrum, peaks) ==
  [displayMode |-> config.displayMode,
   showPeaks   |-> config.showPeaks /\ peakData # Null,
   bandsLength |-> Cardinality(DOMAIN bandList),
   dataLength  |-> Cardinality(DOMAIN bandData),
   peakLength  |-> Cardinality(DOMAIN peakData),
   spectrum    |-> spectrum,
   peaks       |-> peaks]

\* renderRta(ctx, config, bands, bandData, peakData); peakData = Null is null.
renderRta(config, bandList, bandData, peakData) ==
  /\ IF config.showGrid
     THEN RenderGrid(config.width, config.height, config.minDb, config.maxDb,
                     config.minFreq, config.maxFreq)
     ELSE /\ gridUse' = "none"
          /\ UNCHANGED <<gridCache, lastGridKey, clearedSince>>
  /\ IF Cardinality(DOMAIN bandList) = 0 \/ Cardinality(DOMAIN bandData) = 0
     THEN /\ call' = Null
          /\ cacheUse' = "none"
          /\ readers' = {}
          /\ drawn' = <<Drawn(config, bandList, bandData, peakData, {}, {})>>
          /\ UNCHANGED cache
     ELSE LET c == ensureCache(config.width, config.height, bandList,
                               config.minFreq, config.maxFreq)
          IN  /\ cache' = IF config.displayMode = "bars"
                          THEN <<BarsCache(c, config, bandList, bandData)>>
                          ELSE <<LineCache(c, config, bandList, bandData)>>
              /\ call' = <<config.width, config.height, config.minFreq, config.maxFreq,
                           bandList>>
              /\ cacheUse' = IF cache = Null THEN "built"
                             ELSE IF NeedsRebuild(config.width, config.height, bandList,
                                                  config.minFreq, config.maxFreq)
                             THEN "rebuilt"
                             ELSE "reused"
              /\ readers' = ReadersOf(config, bandList, bandData, peakData)
              /\ drawn' = <<Drawn(config, bandList, bandData, peakData,
                                  SpectrumPlotted(config, bandList, bandData),
                                  PeaksPlotted(config, bandList, peakData))>>

\* A direct call of renderRta.
RenderRta(config, bandList, bandData, peakData) ==
  /\ host = "library"
  /\ renderRta(config, bandList, bandData, peakData)
  /\ rOp' = "renderRta"
  /\ UNCHANGED <<host, component>>

\* A direct call of renderGrid.
RenderGridCall(width, height, minDb, maxDb, minFreq, maxFreq) ==
  /\ host = "library"
  /\ RenderGrid(width, height, minDb, maxDb, minFreq, maxFreq)
  /\ rOp' = "renderGrid"
  /\ call' = Null /\ cacheUse' = "none" /\ readers' = {} /\ drawn' = Null
  /\ UNCHANGED <<host, component, cache>>

clearGridCache ==
  /\ gridCanvas' = Null
  /\ gridConfig' = << >>
  /\ gridUse' = "none"
  /\ clearedSince' = TRUE
  /\ UNCHANGED lastGridKey

ClearGridCache ==
  /\ host = "library"
  /\ clearGridCache
  /\ rOp' = "clearGridCache"
  /\ call' = Null /\ cacheUse' = "none" /\ readers' = {} /\ drawn' = Null
  /\ UNCHANGED <<host, component, cache>>

ClearAllCaches ==
  /\ host = "library"
  /\ cache' = Null
  /\ clearGridCache
  /\ rOp' = "clearAllCaches"
  /\ call' = Null /\ cacheUse' = "none" /\ readers' = {} /\ drawn' = Null
  /\ UNCHANGED <<host, component>>

(* ---- the component: RtaCanvas                                              *)

\* updateCanvasSize(), run on mount and by the ResizeObserver, with the
\* container's size.
UpdateCanvasSize(width, height) ==
  /\ host = "component"
  /\ canvasWidth' = width
  /\ canvasHeight' = height
  /\ clearGridCache
  /\ rOp' = "updateCanvasSize"
  /\ call' = Null /\ cacheUse' = "none" /\ readers' = {} /\ drawn' = Null
  /\ UNCHANGED <<host, displayMode, viewDb, cache>>

\* props.displayMode changes: its watcher runs.
DisplayModeChanged(mode) ==
  /\ host = "component"
  /\ mode # displayMode
  /\ displayMode' = mode
  /\ clearGridCache
  /\ rOp' = "displayMode"
  /\ call' = Null /\ cacheUse' = "none" /\ readers' = {} /\ drawn' = Null
  /\ UNCHANGED <<host, canvasWidth, canvasHeight, viewDb, cache>>

\* props.minDb or props.maxDb changes: their watcher runs.
DbRangeChanged(range) ==
  /\ host = "component"
  /\ range # viewDb
  /\ viewDb' = range
  /\ clearGridCache
  /\ rOp' = "dbRange"
  /\ call' = Null /\ cacheUse' = "none" /\ readers' = {} /\ drawn' = Null
  /\ UNCHANGED <<host, canvasWidth, canvasHeight, displayMode, cache>>

\* doRender() with the props of the moment: bands, bandData (null: not given),
\* peakData (null: not given) and peakHold.
DoRender(bandList, bandData, peakData, peakHold) ==
  /\ host = "component"
  /\ LET config == [width |-> canvasWidth, height |-> canvasHeight,
                    displayMode |-> displayMode,
                    minDb |-> viewDb[1], maxDb |-> viewDb[2],
                    minFreq |-> 2000, maxFreq |-> 2000000,
                    showPeaks |-> peakHold, showGrid |-> TRUE]
         bandsLength == IF Cardinality(DOMAIN bandList) = 0 THEN 96
                        ELSE Cardinality(DOMAIN bandList)
     IN  renderRta(config, bandList,
                   IF bandData = Null THEN Filled(bandsLength, viewDb[1]) ELSE bandData,
                   IF peakData = Null THEN Filled(bandsLength, viewDb[1]) ELSE peakData)
  /\ rOp' = "renderRta"
  /\ UNCHANGED <<host, component>>

\* The configs of the direct renderRta calls: the component's first config,
\* and those that differ from it in one respect.
BaseConfig ==
  [width |-> 800, height |-> 600, displayMode |-> "line", minDb |-> -100, maxDb |-> 0,
   minFreq |-> 2000, maxFreq |-> 2000000, showPeaks |-> TRUE, showGrid |-> TRUE]

\* The configs of the calls with long or empty band data.
ModeConfigs == {[BaseConfig EXCEPT !.displayMode = mode] : mode \in DisplayModes}

RenderConfigs ==
  {[BaseConfig EXCEPT !.width = w] : w \in Sides}
    \cup {[BaseConfig EXCEPT !.height = h] : h \in Sides}
    \cup {[BaseConfig EXCEPT !.minFreq = fr[1], !.maxFreq = fr[2]] : fr \in FreqRanges}
    \cup {[BaseConfig EXCEPT !.displayMode = mode] : mode \in DisplayModes}
    \cup {[BaseConfig EXCEPT !.showPeaks = FALSE], [BaseConfig EXCEPT !.showGrid = FALSE]}

RndInit(h) ==
  /\ host = h
  /\ cache = Null
  /\ gridCanvas = Null
  /\ gridConfig = << >>
  /\ canvasWidth = 800
  /\ canvasHeight = 600
  /\ displayMode = "line"
  /\ viewDb = <<-100, 0>>
  /\ rOp = "init"
  /\ call = Null
  /\ cacheUse = "none"
  /\ readers = {}
  /\ gridUse = "none"
  /\ lastGridKey = << >>
  /\ clearedSince = FALSE
  /\ drawn = Null
(***************************************************************************)
(*                       SPECTROGRAM RING BUFFER                           *)
(***************************************************************************)

\* Width of the ring in the model (2048 columns in the source).
RingWidth == 2
\* Largest canvas height, in rows.
MaxHeight == 2

SPECTROGRAM_WIDTH == RingWidth

Cols == 0 .. (SPECTROGRAM_WIDTH - 1)
Heights == 1 .. MaxHeight
\* Canvas widths: narrower than, equal to and wider than the ring.
Widths == 1 .. (SPECTROGRAM_WIDTH + 1)

\* A pixel is <<r, g, b>>; alpha is always 255.
\* RTA_COLORS.background = "#1a1a2e".
Background == <<26, 26, 46>>

ColorMaps == {"grayscale", "inferno", "custom"}
FrequencyScales == {"logarithmic", "linear"}

\* a + d * k / n, truncated as (x | 0) does for x >= 0.
Lerp(a, d, k, n) == (a * n + d * k) \div n

\* createColorMapLUT(colorMap)[i] for t = i / 255.
ColorMapEntry(colorMap, i) ==
  CASE colorMap = "grayscale" -> <<i, i, i>>
    [] colorMap = "inferno" ->
         IF i < 51 THEN <<Lerp(0, 40, i, 51), Lerp(0, 11, i, 51), Lerp(0, 84, i, 51)>>
         ELSE IF i < 102 THEN
           <<Lerp(40, 61, i - 51, 51), Lerp(11, 44, i - 51, 51), Lerp(84, 46, i - 51, 51)>>
         ELSE IF i < 153 THEN
           <<Lerp(101, 79, i - 102, 51), Lerp(55, 52, i - 102, 51), Lerp(130, -38, i - 102, 51)>>
         ELSE IF i < 204 THEN
           <<Lerp(180, 56, i - 153, 51), Lerp(107, 78, i - 153, 51), Lerp(92, -49, i - 153, 51)>>
         ELSE
           <<Lerp(236, 16, i - 204, 51), Lerp(185, 67, i - 204, 51), Lerp(43, 165, i - 204, 51)>>
    [] OTHER ->
         IF 4 * i < 153 THEN
           <<Lerp(10, 15, 4 * i, 153), Lerp(10, 20, 4 * i, 153), Lerp(30, 30, 4 * i, 153)>>
         ELSE IF i < 102 THEN
           <<Lerp(25, 25, 4 * i - 153, 255), Lerp(30, 70, 4 * i - 153, 255),
             Lerp(60, 60, 4 * i - 153, 255)>>
         ELSE IF 4 * i < 663 THEN
           <<Lerp(50, 50, 4 * i - 408, 255), Lerp(100, 80, 4 * i - 408, 255),
             Lerp(120, 30, 4 * i - 408, 255)>>
         ELSE IF 4 * i < 867 THEN
           <<Lerp(100, 100, 4 * i - 663, 204), Lerp(180, 50, 4 * i - 663, 204),
             Lerp(150, -50, 4 * i - 663, 204)>>
         ELSE
           <<Lerp(200, 55, 4 * i - 867, 153), Lerp(230, 25, 4 * i - 867, 153),
             Lerp(100, 100, 4 * i - 867, 153)>>

createColorMapLUT(colorMap) == [i \in 0 .. 255 |-> ColorMapEntry(colorMap, i)]

\* The column writes explored: bandData (dB per band), minDb, maxDb, colour map,
\* gamma and frequency scale of a call.
ColumnCalls ==
  { [bandData |-> <<-90, 0>>, minDb |-> -90, maxDb |-> 0, colorMap |-> "grayscale",
     gamma |-> 1, frequencyScale |-> "logarithmic"],
    [bandData |-> <<-30, -60>>, minDb |-> -90, maxDb |-> 0, colorMap |-> "inferno",
     gamma |-> 2, frequencyScale |-> "linear"],
    [bandData |-> <<-45, -45, 0>>, minDb |-> -90, maxDb |-> 0, colorMap |-> "custom",
     gamma |-> 1, frequencyScale |-> "linear"] }

\* Largest k in 0 .. n-1 with 1000^k * den^(n-1) <= num^(n-1), that is
\* floor(log10(num / den) / 3 * (n - 1)) for 1 <= num / den <= 1000.
LogBandIndex(num, den, n) ==
  LET ok(k) == IPow(1000, k) * IPow(den, n - 1) <= IPow(num, n - 1)
      S == {k \in 0 .. (n - 1) : ok(k)}
  IN  CHOOSE k \in S : \A j \in S : j <= k

\* The band a row reads, or -1 when the index is NaN (height 1: 0 / 0).
RowBandIndex(y, height, numBands, frequencyScale) ==
  IF height = 1 THEN -1
  ELSE
    LET raw == IF frequencyScale = "logarithmic"
               THEN ((height - 1 - y) * (numBands - 1)) \div (height - 1)
               ELSE LogBandIndex((height - 1) + 999 * (height - 1 - y), height - 1, numBands)
    IN  Max(0, Min(numBands - 1, raw))

\* The colour-table index of a row: NaN | 0 is 0.
RowLutIndex(y, height, bandData, minDb, maxDb, gamma, frequencyScale) ==
  LET bandIndex == RowBandIndex(y, height, Len(bandData), frequencyScale)
  IN  IF bandIndex < 0 THEN 0
      ELSE
        LET db == bandData[bandIndex + 1]
            dbRange == maxDb - minDb
            num == IF db - minDb < 0 THEN 0
                   ELSE IF db - minDb > dbRange THEN dbRange ELSE db - minDb
        IN  IF gamma = 1 THEN (num * 255) \div dbRange
            ELSE (IPow(num, gamma) * 255) \div IPow(dbRange, gamma)

VARIABLES
  \* --- spectrogram (module state of the spectrogram renderer)
  spectrogramData,   \* [row -> [col -> pixel]], or Null before allocation
  bufferHeight,
  writeColumn,
  colorLut,          \* the colour map the table was built from, or "null"
  currentColorMap,
  lutRebuilt,        \* whether ensureColorLut rebuilt the table in the last operation
  lastColorMap,      \* history: the colorMap of the last column call, or "null"
  blits,             \* the drawImage calls of the last operation: <<sx, sw, dx>>
  surfaceWidth,      \* the width argument of the last operation, if a composite
  sgRealloc,         \* what ensureBufferCanvas did in the last operation
  sgOp,              \* the last spectrogram operation
  hist,              \* history: the columns written, oldest first, at most one ring
  written            \* history: column writes since allocation or clear, saturating

sgVars == <<spectrogramData, bufferHeight, writeColumn, colorLut, currentColorMap,
            lutRebuilt, lastColorMap, blits, surfaceWidth, sgRealloc, sgOp, hist, written>>

BlankData(height) == [y \in 0 .. (height - 1) |-> [c \in Cols |-> Background]]

\* The old row a new row is copied from: Math.floor((y / height) * oldHeight).
ResampleRow(y, height, oldHeight) == (y * oldHeight) \div height

\* The rows of the new buffer that receive old pixels: y < Math.min(oldHeight, height).
ResampledRows(height, oldHeight) == 0 .. (Min(oldHeight, height) - 1)

\* One column (a function of the row) carried over to a buffer of another height.
ResampleColumn(column, height, oldHeight) ==
  [y \in 0 .. (height - 1) |->
     IF y \in ResampledRows(height, oldHeight)
     THEN column[ResampleRow(y, height, oldHeight)]
     ELSE Background]

BufferIsCurrent(height) == spectrogramData # Null /\ bufferHeight = height
BufferIsResized(height) ==
  ~BufferIsCurrent(height) /\ spectrogramData # Null /\ bufferHeight > 0

\* ensureBufferCanvas(height): the pixel array afterwards.
EnsuredData(height) ==
  IF BufferIsCurrent(height) THEN spectrogramData
  ELSE IF BufferIsResized(height)
  THEN [y \in 0 .. (height - 1) |->
          [c \in Cols |->
             IF y \in ResampledRows(height, bufferHeight)
             THEN spectrogramData[ResampleRow(y, height, bufferHeight)][c]
             ELSE Background]]
  ELSE BlankData(height)

\* Mutant: a resize restarts the cursor.
EnsuredWriteColumnRestart(height) ==
  IF BufferIsCurrent(height) THEN writeColumn ELSE 0

\* ensureBufferCanvas(height): the write cursor afterwards.
EnsuredWriteColumn(height) ==
  IF BufferIsCurrent(height) THEN writeColumn
  ELSE IF BufferIsResized(height) THEN writeColumn
  ELSE 0

\* The history seen through ensureBufferCanvas(height).
EnsuredHist(height) ==
  IF BufferIsCurrent(height) THEN hist
  ELSE IF BufferIsResized(height)
  THEN [k \in 1 .. Len(hist) |-> ResampleColumn(hist[k], height, bufferHeight)]
  ELSE << >>

EnsuredWritten(height) ==
  IF BufferIsCurrent(height) \/ BufferIsResized(height) THEN written ELSE 0

\* ensureBufferCanvas(height): "kept", "first" (allocation) or "resize".
EnsuredRealloc(height) ==
  IF BufferIsCurrent(height) THEN "kept"
  ELSE IF BufferIsResized(height) THEN "resize"
  ELSE "first"

\* Mutant: the table is built once and never again.
LutNeedsRebuildFirstOnly(colorMap) == colorLut = "null"

\* ensureColorLut(colorMap): whether the table is rebuilt.
LutNeedsRebuild(colorMap) == colorLut = "null" \/ currentColorMap # colorMap

\* ensureColorLut(colorMap): the colour map the returned table was built from.
EnsuredLut(colorMap) == IF LutNeedsRebuild(colorMap) THEN colorMap ELSE colorLut

\* ensureColorLut(colorMap): currentColorMap afterwards.
EnsuredColorMap(colorMap) ==
  IF LutNeedsRebuild(colorMap) THEN colorMap ELSE currentColorMap

\* The column renderSpectrogramColumn computes with the table built from
\* lut: row -> pixel.
SpectrumColumn(bandData, minDb, maxDb, height, lut, gamma, frequencyScale) ==
  [y \in 0 .. (height - 1) |->
     createColorMapLUT(lut)[
       RowLutIndex(y, height, bandData, minDb, maxDb, gamma, frequencyScale)]]

\* Mutant: the cursor is not advanced.
NextWriteColumnStuck(col) == col

NextWriteColumn(col) == (col + 1) % SPECTROGRAM_WIDTH

Trim(s) == IF Len(s) > SPECTROGRAM_WIDTH THEN Tail(s) ELSE s

RenderSpectrogramColumn(bandData, minDb, maxDb, height, colorMap, gamma, frequencyScale) ==
  LET data == EnsuredData(height)
      col == EnsuredWriteColumn(height)
      column == SpectrumColumn(bandData, minDb, maxDb, height, EnsuredLut(colorMap),
                               gamma, frequencyScale)
  IN  /\ spectrogramData' =
           [y \in 0 .. (height - 1) |-> [data[y] EXCEPT ![col] = column[y]]]
      /\ bufferHeight' = height
      /\ writeColumn' = NextWriteColumn(col)
      /\ colorLut' = EnsuredLut(colorMap)
      /\ currentColorMap' = EnsuredColorMap(colorMap)
      /\ lutRebuilt' = LutNeedsRebuild(colorMap)
      /\ lastColorMap' = colorMap
      /\ hist' = Trim(Append(EnsuredHist(height), column))
      /\ written' = Min(EnsuredWritten(height) + 1, SPECTROGRAM_WIDTH + 1)
      /\ sgRealloc' = EnsuredRealloc(height)
      /\ sgOp' = "column"
      /\ blits' = << >>
      /\ surfaceWidth' = 0

\* Mutant: on wrap-around the head of the ring is drawn left of the tail.
CompositeBlitsHeadFirst(col, width) ==
  LET visibleCols == Min(width, SPECTROGRAM_WIDTH)
      oldestCol == (col + SPECTROGRAM_WIDTH - visibleCols) % SPECTROGRAM_WIDTH
      rightWidth == SPECTROGRAM_WIDTH - oldestCol
  IN  IF col >= visibleCols THEN << <<col - visibleCols, visibleCols, 0>> >>
      ELSE IF rightWidth >= visibleCols THEN << <<oldestCol, visibleCols, 0>> >>
      ELSE << <<0, visibleCols - rightWidth, 0>>,
              <<oldestCol, rightWidth, visibleCols - rightWidth>> >>

\* Mutant: the wrapped window is copied in one piece, past the end of the ring.
CompositeBlitsUnwrapped(col, width) ==
  LET visibleCols == Min(width, SPECTROGRAM_WIDTH)
      oldestCol == (col + SPECTROGRAM_WIDTH - visibleCols) % SPECTROGRAM_WIDTH
  IN  IF col >= visibleCols THEN << <<col - visibleCols, visibleCols, 0>> >>
      ELSE << <<oldestCol, visibleCols, 0>> >>

\* The drawImage calls of renderSpectrogram for cursor col: <<sx, sw, dx>>.
CompositeBlits(col, width) ==
  LET visibleCols == Min(width, SPECTROGRAM_WIDTH)
      oldestCol == (col + SPECTROGRAM_WIDTH - visibleCols) % SPECTROGRAM_WIDTH
      rightWidth == SPECTROGRAM_WIDTH - oldestCol
  IN  IF col >= visibleCols THEN << <<col - visibleCols, visibleCols, 0>> >>
      ELSE IF rightWidth >= visibleCols THEN << <<oldestCol, visibleCols, 0>> >>
      ELSE << <<oldestCol, rightWidth, 0>>, <<0, visibleCols - rightWidth, rightWidth>> >>

RenderSpectrogram(width, height) ==
  /\ spectrogramData' = EnsuredData(height)
  /\ bufferHeight' = height
  /\ writeColumn' = EnsuredWriteColumn(height)
  /\ hist' = EnsuredHist(height)
  /\ written' = EnsuredWritten(height)
  /\ blits' = CompositeBlits(EnsuredWriteColumn(height), width)
  /\ surfaceWidth' = width
  /\ sgRealloc' = EnsuredRealloc(height)
  /\ sgOp' = "composite"
  /\ lutRebuilt' = FALSE
  /\ UNCHANGED <<colorLut, currentColorMap, lastColorMap>>

ClearSpectrogramBuffer ==
  /\ IF spectrogramData # Null
     THEN /\ spectrogramData' = BlankData(bufferHeight)
          /\ writeColumn' = 0
          /\ hist' = << >>
          /\ written' = 0
     ELSE UNCHANGED <<spectrogramData, writeColumn, hist, written>>
  /\ sgRealloc' = "kept"
  /\ sgOp' = "clear"
  /\ blits' = << >>
  /\ surfaceWidth' = 0
  /\ lutRebuilt' = FALSE
  /\ UNCHANGED <<bufferHeight, colorLut, currentColorMap, lastColorMap>>

ResetSpectrogramState ==
  /\ spectrogramData' = Null
  /\ bufferHeight' = 0
  /\ writeColumn' = 0
  /\ hist' = << >>
  /\ written' = 0
  /\ sgRealloc' = "kept"
  /\ sgOp' = "reset"
  /\ blits' = << >>
  /\ surfaceWidth' = 0
  /\ lutRebuilt' = FALSE
  /\ UNCHANGED <<colorLut, currentColorMap, lastColorMap>>

SgInit ==
  /\ spectrogramData = Null
  /\ bufferHeight = 0
  /\ writeColumn = 0
  /\ colorLut = "null"
  /\ currentColorMap = "custom"
  /\ lutRebuilt = FALSE
  /\ lastColorMap = "null"
  /\ blits = << >>
  /\ surfaceWidth = 0
  /\ sgRealloc = "kept"
  /\ sgOp = "init"
  /\ hist = << >>
  /\ written = 0
(***************************************************************************)
(*                    PURE FUNCTIONS OF rtaProcessor.ts                    *)
(*                                                                         *)
(* A call of a pure function is one step: fnOp names the function, fnArgs  *)
(* holds its arguments and fnResult what it returned.                      *)
(***************************************************************************)

VARIABLES fnOp, fnArgs, fnResult

fnVars == <<fnOp, fnArgs, fnResult>>

\* Sample rates of an audio context, in Hz.  Up to 40 kHz the top of the
\* band range is half the rate, above it is 20 kHz.
BandRates == {4000, 40000, 44100, 48000, 96000}

\* Analyser sizes (64 is the size the library sessions use).
BandFftSizes == {64, 512, 2048, 16384}

\* Band counts that divide the number of grid steps of the rate's range.
BandCounts(rate) ==
  LET top == LogIndex(Min(2000000, 50 * rate))
  IN  {n \in 2 .. MAX_BANDS : top % n = 0}

\* The bins the averaging loops of process read for one band: blocks of
\* eight from binStart, then the rest up to binEnd.
BinsRead(binStart, binEnd) ==
  LET count == binEnd - binStart + 1
      end8  == binStart + (count \div 8) * 8
  IN  {j \in binStart .. (end8 - 1) : TRUE} \cup {j \in end8 .. binEnd : TRUE}

\* A number passed to or returned by a conversion function: a finite value
\* or NaN.  dB values are whole decibels, linear values whole units of
\* MIN_LINEAR_POWER (tenths of a unit where an interpolation is returned).
Num(v) == <<"num", v>>
NotANumber == <<"NaN">>
IsNum(x) == x[1] = "num"

\* What a conversion returns and the table indices it read on the way.
Returned(value, indices) == [value |-> value, indices |-> indices]

\* dB arguments: every whole decibel from 10 dB below the table to 5 dB above.
DbInputs == {Num(db) : db \in (DB_MIN - 10) .. (DB_MAX + 5)} \cup {NotANumber}

\* Linear arguments: negative, zero, and around every decade and half decade
\* of the table, up to twice the largest entry.
LinearInputs ==
  {Num(v) : v \in {-1, 0, 2 * MAX_LINEAR_POWER}
                    \cup {f * IPow(10, k) : f \in {1, 2, 3, 5, 8}, k \in 0 .. DbDecades}
                    \cup {HalfDecades[k] - 1 : k \in 1 .. DbDecades}
                    \cup {HalfDecades[k] : k \in 1 .. DbDecades}}
    \cup {NotANumber}

\* 1000 * 10^(j/10) for j = 0 .. 9, rounded.
PowTenth == <<1000, 1259, 1585, 1995, 2512, 3162, 3981, 5012, 6310, 7943>>

\* Math.pow(10, db * DB_TO_LINEAR_FACTOR) for a whole db in [DB_MIN, 0], in
\* thousandths of a unit.
dbToLinearExact(db) ==
  PowTenth[((db - DB_MIN) % 10) + 1] * IPow(10, (db - DB_MIN) \div 10)

\* Whole decades in a linear value of at least one unit: floor(log10(linear)).
Decades(linear) == Cardinality({k \in 1 .. (DbDecades + 1) : linear >= IPow(10, k)})

\* Tenths of a decade by which linear exceeds its whole decades.
TenthsOver(linear) ==
  LET low == Decades(linear)
  IN  Cardinality({j \in 2 .. 10 : 1000 * (linear \div IPow(10, low)) 
                                     + (1000 * (linear % IPow(10, low))) \div IPow(10, low)
                                   >= PowTenth[j]})

\* LINEAR_TO_DB_FACTOR * Math.log10(linear) for linear of at least one unit, in
\* whole decibels (rounded down).
linearToDbExact(linear) == DB_MIN + 10 * Decades(linear) + TenthsOver(linear)

dbToLinear(x) ==
  IF IsNum(x) /\ x[2] <= DB_MIN THEN Returned(Num(10 * MIN_LINEAR_POWER), {})
  ELSE IF IsNum(x) /\ x[2] >= DB_MAX THEN Returned(Num(10 * MAX_LINEAR_POWER), {})
  ELSE IF ~IsNum(x)
    \* indexF is NaN: indexLow = (NaN | 0) = 0 and frac = NaN
    THEN Returned(NotANumber, {0, 1})
    ELSE LET scaled    == (x[2] - DB_MIN) * LUT_SIZE_MINUS_1
             indexLow  == scaled \div DB_RANGE
             indexHigh == indexLow + 1
             frac      == scaled % DB_RANGE
         IN  IF indexHigh >= LUT_SIZE
             THEN Returned(Num(10 * dbToLinearLUT[LUT_SIZE_MINUS_1]), {LUT_SIZE_MINUS_1})
             ELSE Returned(Num(10 * dbToLinearLUT[indexLow]
                                 + (10 * frac * (dbToLinearLUT[indexHigh]
                                                   - dbToLinearLUT[indexLow])) \div DB_RANGE),
                           {indexLow, indexHigh})

fastDbToLinearCall(x) ==
  IF IsNum(x) /\ x[2] <= DB_MIN THEN Returned(Num(MIN_LINEAR_POWER), {})
  ELSE IF IsNum(x) /\ x[2] >= DB_MAX THEN Returned(Num(MAX_LINEAR_POWER), {})
  ELSE LET db == IF IsNum(x) THEN x[2] ELSE NaN
       IN  Returned(Num(fastDbToLinear(db)), {DbLutIndex(db)})

linearToDb(x) ==
  IF IsNum(x) /\ x[2] <= MIN_LINEAR_POWER THEN Returned(Num(DB_MIN), {})
  ELSE IF IsNum(x) /\ x[2] >= MAX_LINEAR_POWER THEN Returned(Num(DB_MAX), {})
  ELSE IF ~IsNum(x)
    \* Math.log(NaN) is NaN: indexLow = (NaN | 0) = 0 and frac = NaN
    THEN Returned(NotANumber, {0, 1})
    ELSE LET indexLow  == Decades(x[2])
             indexHigh == indexLow + 1
             frac      == TenthsOver(x[2])
         IN  IF indexHigh >= LUT_SIZE
             THEN Returned(Num(linearToDbLUT[LUT_SIZE_MINUS_1]), {LUT_SIZE_MINUS_1})
             ELSE Returned(Num(linearToDbLUT[indexLow]
                                 + (frac * (linearToDbLUT[indexHigh]
                                              - linearToDbLUT[indexLow])) \div 10),
                           {indexLow, indexHigh})

fastLinearToDbCall(x) ==
  IF IsNum(x) /\ x[2] <= MIN_LINEAR_POWER THEN Returned(Num(DB_MIN), {})
  ELSE IF IsNum(x) /\ x[2] >= MAX_LINEAR_POWER THEN Returned(Num(DB_MAX), {})
  ELSE IF ~IsNum(x)
    \* Math.log(NaN) is NaN and (NaN | 0) = 0
    THEN Returned(Num(linearToDbLUT[0]), {0})
    ELSE LET index == LinearLutIndex(x[2])
         IN  Returned(Num(fastLinearToDb(x[2])),
                      {IF index < LUT_SIZE THEN index ELSE LUT_SIZE_MINUS_1})

FnInit == fnOp = "none" /\ fnArgs = << >> /\ fnResult = << >>

\* The caller takes the result; the next call starts from here.
FnReturn ==
  /\ fnOp # "none"
  /\ fnOp' = "none"
  /\ fnArgs' = << >>
  /\ fnResult' = << >>

CalculateBands(numBands, rate, fftSize) ==
  /\ fnOp = "none"
  /\ fnOp' = "calculateBands"
  /\ fnArgs' = <<numBands, rate, fftSize>>
  /\ fnResult' = calculateBands(numBands, rate, fftSize)

DbToLinear(x) ==
  /\ fnOp = "none"
  /\ fnOp' = "dbToLinear"
  /\ fnArgs' = <<x>>
  /\ fnResult' = dbToLinear(x)

FastDbToLinear(x) ==
  /\ fnOp = "none"
  /\ fnOp' = "fastDbToLinear"
  /\ fnArgs' = <<x>>
  /\ fnResult' = fastDbToLinearCall(x)

LinearToDb(x) ==
  /\ fnOp = "none"
  /\ fnOp' = "linearToDb"
  /\ fnArgs' = <<x>>
  /\ fnResult' = linearToDb(x)

FastLinearToDb(x) ==
  /\ fnOp = "none"
  /\ fnOp' = "fastLinearToDb"
  /\ fnArgs' = <<x>>
  /\ fnResult' = fastLinearToDbCall(x)

\* The column writes whose rows are examined: one, two and three bands, with
\* levels below, within and above the dB range.
RowCalls ==
  { [bandData |-> data, minDb |-> -90, maxDb |-> 0, gamma |-> gamma,
     frequencyScale |-> scale] :
      data \in {<<-100>>, <<-45>>, <<10, -45>>, <<-45, -90, 0>>},
      gamma \in {1, 2}, scale \in FrequencyScales }

\* The row loop of renderSpectrogramColumn: for each row the band index it
\* reads (-1: NaN) and the colour-table index it stores.
SpectrogramRows(c, height) ==
  /\ fnOp = "none"
  /\ fnOp' = "renderSpectrogramColumn"
  /\ fnArgs' = <<Len(c.bandData), height, c.frequencyScale>>
  /\ fnResult' =
       [y \in 0 .. (height - 1) |->
          [bandIndex |-> RowBandIndex(y, height, Len(c.bandData), c.frequencyScale),
           lutIndex  |-> RowLutIndex(y, height, c.bandData, c.minDb, c.maxDb, c.gamma,
                                     c.frequencyScale)]]
(***************************************************************************)
(*                    THE ANIMATION-FRAME CALLBACKS                        *)
(*                                                                         *)
(* App's update loop and the render loop of the mounted canvas each keep   *)
(* one requestAnimationFrame callback registered.  The browser runs the    *)
(* callbacks registered before a frame in the order of their registration; *)
(* a callback registered while the frame's callbacks run waits for the     *)
(* next frame.  Mounting, loading a file, play, pause and the display-mode *)
(* switch happen between frames.                                           *)
(***************************************************************************)

\* Animation frames that are followed.
MaxFrames == 4

VARIABLES
  rafQueue,          \* the callbacks registered for the next frame, in order
  rafRun,            \* the callbacks of the running frame that have yet to run
  tick,              \* frames begun so far
  updateLoop,        \* App's animationFrameId is not null
  mounted,           \* the canvas that is mounted: "rta" or "spectrogram"
  isPlaying,
  version,           \* runs of updateFrequencyData that wrote the dB arrays
  tickVersion,       \* the version written by the update callback of this frame; 0: none
  lastDraw,          \* <<[tick, version]>> of the arrays the last doRender read
  schedOp            \* the last operation

schedVars ==
  <<rafQueue, rafRun, tick, updateLoop, mounted, isPlaying, version, tickVersion,
    lastDraw, schedOp>>

\* cancelAnimationFrame(animationFrameId)
Cancelled(queue, callback) == SelectSeq(queue, LAMBDA c : c # callback)

\* App is mounted with displayMode "line": RtaCanvas is mounted, and its
\* startRenderLoop has drawn once and registered renderLoop.
SchedInit ==
  /\ rafQueue = <<"rta">>
  /\ rafRun = << >>
  /\ tick = 0
  /\ updateLoop = FALSE
  /\ mounted = "rta"
  /\ isPlaying = FALSE
  /\ version = 0
  /\ tickVersion = 0
  /\ lastDraw = <<[tick |-> 0, version |-> 0]>>
  /\ schedOp = "mount"

\* A file is loaded: startUpdateLoop() runs update() once and registers it.
StartUpdateLoop ==
  /\ rafRun = << >>
  /\ ~updateLoop
  /\ updateLoop' = TRUE
  /\ version' = IF isPlaying THEN version + 1 ELSE version
  /\ rafQueue' = Append(rafQueue, "update")
  /\ schedOp' = "startUpdateLoop"
  /\ UNCHANGED <<rafRun, tick, mounted, isPlaying, tickVersion, lastDraw>>

\* play() and pause() of a loaded file.
SetPlaying(playing) ==
  /\ rafRun = << >>
  /\ updateLoop
  /\ isPlaying # playing
  /\ isPlaying' = playing
  /\ schedOp' = "setPlaying"
  /\ UNCHANGED <<rafQueue, rafRun, tick, updateLoop, mounted, version, tickVersion,
                 lastDraw>>

\* displayMode changes between the spectrogram and the other modes: the
\* mounted canvas is unmounted (stopRenderLoop) and the other one mounted
\* (startRenderLoop: RtaCanvas draws at once and registers, SpectrogramCanvas
\* registers).
SwitchCanvas ==
  /\ rafRun = << >>
  /\ mounted' = IF mounted = "rta" THEN "spectrogram" ELSE "rta"
  /\ rafQueue' = Append(Cancelled(rafQueue, mounted), mounted')
  /\ lastDraw' = IF mounted' = "rta" THEN <<[tick |-> tick, version |-> version]>>
                 ELSE lastDraw
  /\ schedOp' = "switchCanvas"
  /\ UNCHANGED <<rafRun, tick, updateLoop, isPlaying, version, tickVersion>>

\* The browser begins a frame: the registered callbacks will run in order.
BeginFrame ==
  /\ rafRun = << >>
  /\ tick < MaxFrames
  /\ tick' = tick + 1
  /\ rafRun' = rafQueue
  /\ rafQueue' = << >>
  /\ tickVersion' = 0
  /\ schedOp' = "beginFrame"
  /\ UNCHANGED <<updateLoop, mounted, isPlaying, version, lastDraw>>

\* App's update callback: updateFrequencyData() if playing, then it
\* registers itself again.
RunUpdate ==
  /\ rafRun # << >>
  /\ Head(rafRun) = "update"
  /\ rafRun' = Tail(rafRun)
  /\ rafQueue' = Append(rafQueue, "update")
  /\ version' = IF isPlaying THEN version + 1 ELSE version
  /\ tickVersion' = IF isPlaying THEN version + 1 ELSE tickVersion
  /\ schedOp' = "update"
  /\ UNCHANGED <<tick, updateLoop, mounted, isPlaying, lastDraw>>

\* The canvas's renderLoop: doRender() reads the dB arrays, then it registers
\* itself again.
RunRenderLoop ==
  /\ rafRun # << >>
  /\ Head(rafRun) = mounted
  /\ rafRun' = Tail(rafRun)
  /\ rafQueue' = Append(rafQueue, mounted)
  /\ lastDraw' = <<[tick |-> tick, version |-> version]>>
  /\ schedOp' = "renderLoop"
  /\ UNCHANGED <<tick, updateLoop, mounted, isPlaying, version, tickVersion>>

(***************************************************************************)
(*        THE PIPELINE: ONE PROCESSING STATE DRAWN BY BOTH RENDERERS       *)
(***************************************************************************)

VARIABLES
  stage,            \* what runs next: "load", "update", "draw" or "composite"
  appBands,         \* bands.value of the application
  bandDataBuffer,   \* the array behind bandData.value, or Null
  peakDataBuffer    \* the array behind peakData.value, or Null

pipeVars == <<stage, appBands, bandDataBuffer, peakDataBuffer>>

\* The settings of the pipeline's renderRta calls: both display modes, with a
\* dB range narrower than the levels the processor produces.
PipeConfigs ==
  {[BaseConfig EXCEPT !.displayMode = mode, !.minDb = -20, !.maxDb = -10] :
     mode \in DisplayModes}

\* The settings of the pipeline's spectrogram columns.
PipeColumn ==
  [minDb |-> -20, maxDb |-> -10, colorMap |-> "inferno", gamma |-> 1,
   frequencyScale |-> "logarithmic"]

\* The values of a Float32Array, first to last.
Levels(data) == [k \in 1 .. Cardinality(DOMAIN data) |-> data[k - 1]]

\* Mutant: the renderer clamps the levels in the array it was given.
ClampedInPlace(data, minDb, maxDb) ==
  [i \in DOMAIN data |-> Max(minDb, Min(maxDb, data[i]))]

\* A dB array after a renderer has read it: renderBars, renderLine,
\* renderPeaks and renderSpectrogramColumn read each level (bd[i],
\* peakData[i], bandData[bandIndex]) into a local or into the renderer's own
\* coordinate arrays, and write nothing back.
AfterDraw(data, minDb, maxDb) == data

PipeInit ==
  /\ stage = "load"
  /\ appBands = Null
  /\ bandDataBuffer = Null
  /\ peakDataBuffer = Null

\* Loading a track: initAudioContext.
PipeInitAudioContext(rate) ==
  /\ stage = "load"
  /\ InitAudioContext(rate)
  /\ stage' = "update"
  /\ UNCHANGED <<appBands, bandDataBuffer, peakDataBuffer>>

\* The band list of the application after updateFrequencyData.
CurrentBands ==
  IF Cardinality(DOMAIN bands) > 0
       /\ Cardinality(DOMAIN bands) # Cardinality(DOMAIN appBands)
  THEN bands ELSE appBands

\* updateFrequencyData() on the frame of this tick: getFrequencyData, then
\* both dB arrays copied into the application's buffers. At most MaxTicks
\* frames are explored.
PipeUpdateFrequencyData(frame) ==
  /\ stage = "update"
  /\ ticks < MaxTicks
  /\ GetFrequencyData(frame)
  /\ appBands' = CurrentBands
  /\ IF NotReady
     THEN IF CurrentBands # appBands
          THEN /\ bandDataBuffer' = Filled(Cardinality(DOMAIN bands), 0)
               /\ peakDataBuffer' = Filled(Cardinality(DOMAIN bands), 0)
          ELSE UNCHANGED <<bandDataBuffer, peakDataBuffer>>
     ELSE /\ bandDataBuffer' = smoothedDb'
          /\ peakDataBuffer' = peaksDb'
  /\ stage' = "draw"

\* renderRta on the application's band list and buffers.
PipeRenderRta(config) ==
  /\ stage = "draw"
  /\ RenderRta(config, appBands, bandDataBuffer, peakDataBuffer)
  /\ bandDataBuffer' = AfterDraw(bandDataBuffer, config.minDb, config.maxDb)
  /\ peakDataBuffer' = AfterDraw(peakDataBuffer, config.minDb, config.maxDb)
  /\ stage' = "update"
  /\ UNCHANGED appBands

\* renderSpectrogramColumn on the application's band data.
PipeRenderSpectrogramColumn(height) ==
  /\ stage = "draw"
  /\ RenderSpectrogramColumn(Levels(bandDataBuffer), PipeColumn.minDb,
                             PipeColumn.maxDb, height, PipeColumn.colorMap,
                             PipeColumn.gamma, PipeColumn.frequencyScale)
  /\ bandDataBuffer' = AfterDraw(bandDataBuffer, PipeColumn.minDb, PipeColumn.maxDb)
  /\ stage' = "composite"
  /\ UNCHANGED <<appBands, peakDataBuffer>>

\* renderSpectrogram, which draws the ring the column went into.
PipeRenderSpectrogram(width, height) ==
  /\ stage = "composite"
  /\ RenderSpectrogram(width, height)
  /\ stage' = "update"
  /\ UNCHANGED <<appBands, bandDataBuffer, peakDataBuffer>>
(***************************************************************************)
(*            SpectrogramCanvas: THE THROTTLE OF COLUMN WRITES             *)
(*                                                                         *)
(* doRender runs once per animation frame with the frame's timestamp.  It  *)
(* writes one column when the canvas is playing, has band data and the     *)
(* timestamp is at least columnInterval past lastRenderTime, and then      *)
(* composites.  The watcher of isPlaying sets lastRenderTime to 0 on       *)
(* pause.  Time is in units of 2 ms.                                       *)
(***************************************************************************)

\* Latest frame timestamp that is followed.
MaxStamp == 7

VARIABLES
  cvPc,             \* position in doRender: "idle" or "composite"
  cvPlaying,        \* props.isPlaying
  cvInterval,       \* props.columnInterval
  lastRenderTime,
  cvStamp,          \* timestamp of the latest frame
  cvWrites,         \* columns written by the canvas so far
  lastWriteStamp,   \* timestamp of the frame of the latest column write; -1: none
  pausedSince       \* isPlaying went false after the latest column write

cvVars ==
  <<cvPc, cvPlaying, cvInterval, lastRenderTime, cvStamp, cvWrites, lastWriteStamp,
    pausedSince>>

\* The settings of the scrolling-speed slider that are explored (4 and 8 ms).
ColumnIntervals == {2, 4}

\* Timestamps of the frames that can follow the frame at stamp.
NextStamps(stamp) == (stamp + 1) .. Min(stamp + 3, MaxStamp)

\* props of the canvas that do not change in the model.
CanvasProps ==
  [bandData |-> <<-20, -10>>, minDb |-> -20, maxDb |-> -10, colorMap |-> "inferno",
   gamma |-> 1, frequencyScale |-> "logarithmic", width |-> SPECTROGRAM_WIDTH,
   height |-> 1]

\* The band data of a frame: null, empty or the levels of the bands.
CanvasBandData == {Null, << >>, CanvasProps.bandData}

\* Mutant: no throttle, a column on every frame.
ColumnDueEveryFrame(timestamp) == TRUE

\* timestamp - lastRenderTime >= props.columnInterval
ColumnDue(timestamp) == timestamp - lastRenderTime >= cvInterval

\* props.isPlaying && props.bandData && props.bandData.length > 0
HasColumn(bandData) ==
  /\ cvPlaying
  /\ bandData # Null
  /\ Len(bandData) > 0

CvInit ==
  /\ cvPc = "idle"
  /\ cvPlaying = FALSE
  /\ cvInterval = 4
  /\ lastRenderTime = 0
  /\ cvStamp = 0
  /\ cvWrites = 0
  /\ lastWriteStamp = -1
  /\ pausedSince = FALSE

\* props.isPlaying changes; the watcher runs before the next frame.
CvSetPlaying(playing) ==
  /\ cvPc = "idle"
  /\ playing # cvPlaying
  /\ cvPlaying' = playing
  /\ lastRenderTime' = IF ~playing THEN 0 ELSE lastRenderTime
  /\ pausedSince' = (pausedSince \/ ~playing)
  /\ UNCHANGED <<cvPc, cvInterval, cvStamp, cvWrites, lastWriteStamp>>

\* handleUpdateSpectrogramColumnInterval
CvSetColumnInterval(interval) ==
  /\ cvPc = "idle"
  /\ interval # cvInterval
  /\ cvInterval' = interval
  /\ UNCHANGED <<cvPc, cvPlaying, lastRenderTime, cvStamp, cvWrites, lastWriteStamp,
                 pausedSince>>

\* doRender(timestamp) down to the column write.
CvDoRender(timestamp, bandData) ==
  /\ cvPc = "idle"
  /\ timestamp \in NextStamps(cvStamp)
  /\ cvStamp' = timestamp
  /\ IF HasColumn(bandData) /\ ColumnDue(timestamp)
     THEN /\ RenderSpectrogramColumn(bandData, CanvasProps.minDb, CanvasProps.maxDb,
                                     CanvasProps.height, CanvasProps.colorMap,
                                     CanvasProps.gamma, CanvasProps.frequencyScale)
          /\ lastRenderTime' = timestamp
          /\ cvWrites' = cvWrites + 1
          /\ lastWriteStamp' = timestamp
          /\ pausedSince' = FALSE
     ELSE UNCHANGED <<sgVars, lastRenderTime, cvWrites, lastWriteStamp, pausedSince>>
  /\ cvPc' = "composite"
  /\ UNCHANGED <<cvPlaying, cvInterval>>

\* doRender: renderSpectrogram, which ends the frame.
CvRenderSpectrogram ==
  /\ cvPc = "composite"
  /\ RenderSpectrogram(CanvasProps.width, CanvasProps.height)
  /\ cvPc' = "idle"
  /\ UNCHANGED <<cvPlaying, cvInterval, lastRenderTime, cvStamp, cvWrites,
                 lastWriteStamp, pausedSince>>

\* ---------------------------------------------------------------------------
\* utils/metadataWasmLoader.ts and the module variable of utils/metadataParser.ts:
\* the metadata parser's WebAssembly module is loaded once, on first demand.
\* A module is named by a number: 0 is the module of defaultInit, c the module
\* the init option of caller c yields.
\* ---------------------------------------------------------------------------

\* Concurrent callers of ensureMetadataWasmLoaded.
NumCallers == 3

Callers == 1 .. NumCallers

\* undefined / null where a module is expected.
NoModule == -1

DefaultModule == 0

\* The init a caller passes: options.init of its own, or none (defaultInit).
InitOptions(c) == {DefaultModule, c}

VARIABLES
  loaderLoading,    \* state.loading: "none", or the state of the promise
  loaderLoaded,     \* state.loaded
  wasmModule,       \* metadataParser's wasmModule
  initCalls,        \* number of invocations of an init function
  initPromise,      \* the promise init() returned: "none", "pending", ...
  initModule,       \* the module that promise yields when it fulfils
  setCalls,         \* number of calls of setMetadataWasm
  callerPc,         \* per caller: "idle", "awaiting", "fulfilled", "rejected"
  callerInit,       \* per caller: the init it passed
  callerModule      \* per caller: the module its promise resolved with

wasmVars == <<loaderLoading, loaderLoaded, wasmModule, initCalls, initPromise,
              initModule, setCalls, callerPc, callerInit, callerModule>>

WasmInit ==
  /\ loaderLoading = "none"
  /\ loaderLoaded = NoModule
  /\ wasmModule = NoModule
  /\ initCalls = 0
  /\ initPromise = "none"
  /\ initModule = NoModule
  /\ setCalls = 0
  /\ callerPc = [c \in Callers |-> "idle"]
  /\ callerInit = [c \in Callers |-> NoModule]
  /\ callerModule = [c \in Callers |-> NoModule]

\* A second load started while the first one is still pending.
NotLoadingUntilSettled == loaderLoading \in {"none", "pending"}

\* if (!state.loading)
NotLoading == loaderLoading = "none"

\* requireWasm throws when no module was set.
RequireWasmThrows == wasmModule = NoModule

\* The synchronous body of ensureMetadataWasmLoaded: it returns the loaded
\* module, or starts the load when none is under way, and returns the shared
\* promise.
EnsureMetadataWasmLoaded(c, init) ==
  /\ callerPc[c] = "idle"
  /\ callerInit' = [callerInit EXCEPT ![c] = init]
  /\ IF loaderLoaded # NoModule
     THEN /\ callerPc' = [callerPc EXCEPT ![c] = "fulfilled"]
          /\ callerModule' = [callerModule EXCEPT ![c] = loaderLoaded]
          /\ UNCHANGED <<loaderLoading, initCalls, initPromise, initModule>>
     ELSE /\ callerPc' = [callerPc EXCEPT ![c] = "awaiting"]
          /\ UNCHANGED callerModule
          /\ IF NotLoading
             THEN /\ initCalls' = initCalls + 1
                  /\ initPromise' = "pending"
                  /\ initModule' = init
                  /\ loaderLoading' = "pending"
             ELSE UNCHANGED <<loaderLoading, initCalls, initPromise, initModule>>
  /\ UNCHANGED <<loaderLoaded, wasmModule, setCalls>>

\* The promise of init() settles: the module is instantiated, or the import
\* or the instantiation fails.
InitSettles(ok) ==
  /\ initPromise = "pending"
  /\ initPromise' = IF ok THEN "fulfilled" ELSE "rejected"
  /\ UNCHANGED <<loaderLoading, loaderLoaded, wasmModule, initCalls, initModule,
                 setCalls, callerPc, callerInit, callerModule>>

\* The reaction of state.loading to init(): the then callback hands the module
\* to the parser and records it; a rejection passes through.
LoadingSettles ==
  /\ loaderLoading = "pending"
  /\ initPromise \in {"fulfilled", "rejected"}
  /\ IF initPromise = "fulfilled"
     THEN /\ wasmModule' = initModule
          /\ setCalls' = setCalls + 1
          /\ loaderLoaded' = initModule
          /\ loaderLoading' = "fulfilled"
     ELSE /\ loaderLoading' = "rejected"
          /\ UNCHANGED <<wasmModule, setCalls, loaderLoaded>>
  /\ UNCHANGED <<initCalls, initPromise, initModule, callerPc, callerInit,
                 callerModule>>

\* The promise a caller holds follows state.loading once that has settled.
CallerSettles(c) ==
  /\ callerPc[c] = "awaiting"
  /\ loaderLoading \in {"fulfilled", "rejected"}
  /\ callerPc' = [callerPc EXCEPT ![c] = loaderLoading]
  /\ callerModule' = [callerModule EXCEPT ![c] =
                        IF loaderLoading = "fulfilled" THEN initModule ELSE NoModule]
  /\ UNCHANGED <<loaderLoading, loaderLoaded, wasmModule, initCalls, initPromise,
                 initModule, setCalls, callerInit>>

\* ---------------------------------------------------------------------------
\* App.vue: the playlist. A track is named by its id; ids come from
\* crypto.randomUUID and are numbered here in the order the tracks are added.
\* ---------------------------------------------------------------------------

\* Tracks that are added.
MaxTracks == 4

TrackIds == 1 .. MaxTracks

\* currentTrack = null.
NoTrack == 0

Directions == {"up", "down"}

VARIABLES
  queueTracks,      \* queue: the upcoming tracks, next one first
  historyTracks,    \* history: the played tracks, latest last
  currentTrack,     \* currentTrack, or NoTrack
  isLoaded,         \* audioRta.isLoaded
  audioPlaying,     \* audioRta.isPlaying
  tracksAdded,      \* number of tracks added so far
  playlistOp        \* the handler that ran last, its arguments, the index it found

plVars == <<queueTracks, historyTracks, currentTrack, isLoaded, audioPlaying,
            tracksAdded, playlistOp>>

PlInit ==
  /\ queueTracks = << >>
  /\ historyTracks = << >>
  /\ currentTrack = NoTrack
  /\ isLoaded = FALSE
  /\ audioPlaying = FALSE
  /\ tracksAdded = 0
  /\ playlistOp = <<"setup">>

\* findIndex: the first position of the id, 0 when it is absent.
FindIndex(tracks, trackId) ==
  IF \E k \in DOMAIN tracks : tracks[k] = trackId
  THEN CHOOSE k \in DOMAIN tracks :
         tracks[k] = trackId /\ \A j \in 1 .. (k - 1) : tracks[j] # trackId
  ELSE 0

\* splice(index, 1): the list without the entry at the position.
Splice(tracks, index) ==
  [k \in 1 .. (Len(tracks) - 1) |-> IF k < index THEN tracks[k] ELSE tracks[k + 1]]

\* A history that forgets the track it is given.
PushToHistoryDropped(tracks, track) == tracks

PushToHistory(tracks, track) == Append(tracks, track)

\* The history after the current track, if there is one, was pushed to it.
WithCurrentPlayed(tracks) ==
  IF currentTrack # NoTrack THEN PushToHistory(tracks, currentTrack) ELSE tracks

\* setCurrentTrack: stops the playback and makes the track the current one;
\* the load that follows is the transport's (AudioEvent).
SetCurrentTrack(track) ==
  /\ audioPlaying' = FALSE
  /\ currentTrack' = track

\* handleFilesSelected, the first file: it joins the queue, and the head of
\* the queue becomes the current track when there is none.
FirstTrackSelected ==
  /\ tracksAdded < MaxTracks
  /\ tracksAdded' = tracksAdded + 1
  /\ LET pushed == Append(queueTracks, tracksAdded + 1)
     IN  IF currentTrack = NoTrack
         THEN /\ queueTracks' = Tail(pushed)
              /\ SetCurrentTrack(Head(pushed))
         ELSE /\ queueTracks' = pushed
              /\ UNCHANGED <<currentTrack, audioPlaying>>
  /\ playlistOp' = <<"handleFilesSelected", tracksAdded + 1>>
  /\ UNCHANGED <<historyTracks, isLoaded>>

\* handleFilesSelected, the remaining files: they join the queue once their
\* metadata is read.
RemainingTracksEnriched ==
  /\ tracksAdded < MaxTracks
  /\ tracksAdded' = tracksAdded + 1
  /\ queueTracks' = Append(queueTracks, tracksAdded + 1)
  /\ playlistOp' = <<"enriched", tracksAdded + 1>>
  /\ UNCHANGED <<historyTracks, currentTrack, isLoaded, audioPlaying>>

\* The transport: a load starts or fails (isLoaded false), the metadata of
\* the loaded file arrives (isLoaded true), the playback starts or pauses.
AudioEvent(loaded, playing) ==
  /\ currentTrack # NoTrack
  /\ isLoaded' = loaded
  /\ audioPlaying' = (loaded /\ playing)
  /\ <<isLoaded', audioPlaying'>> # <<isLoaded, audioPlaying>>
  /\ playlistOp' = <<"audio">>
  /\ UNCHANGED <<queueTracks, historyTracks, currentTrack, tracksAdded>>

HandlePlay ==
  /\ playlistOp' = <<"handlePlay">>
  /\ IF ~isLoaded /\ currentTrack # NoTrack
     THEN UNCHANGED <<queueTracks, historyTracks, currentTrack, audioPlaying>>
     ELSE IF ~isLoaded /\ Len(queueTracks) > 0
     THEN /\ queueTracks' = Tail(queueTracks)
          /\ SetCurrentTrack(Head(queueTracks))
          /\ UNCHANGED historyTracks
     ELSE /\ audioPlaying' = isLoaded
          /\ UNCHANGED <<queueTracks, historyTracks, currentTrack>>
  /\ UNCHANGED <<isLoaded, tracksAdded>>

MoveQueueTrack(trackId, direction) ==
  /\ playlistOp' = <<"moveQueueTrack", trackId, direction, FindIndex(queueTracks, trackId)>>
  /\ LET index == FindIndex(queueTracks, trackId)
         targetIndex == IF direction = "up" THEN index - 1 ELSE index + 1
     IN  IF index = 0 \/ targetIndex < 1 \/ targetIndex > Len(queueTracks)
         THEN UNCHANGED queueTracks
         ELSE queueTracks' = [queueTracks EXCEPT ![index] = queueTracks[targetIndex],
                                                 ![targetIndex] = queueTracks[index]]
  /\ UNCHANGED <<historyTracks, currentTrack, isLoaded, audioPlaying, tracksAdded>>

HandleSelectTrack(trackId) ==
  /\ playlistOp' = <<"handleSelectTrack", trackId>>
  /\ LET queueIndex == FindIndex(queueTracks, trackId)
         historyIndex == FindIndex(historyTracks, trackId)
     IN  IF currentTrack = trackId
         THEN /\ audioPlaying' = (IF audioPlaying THEN FALSE ELSE isLoaded)
              /\ UNCHANGED <<queueTracks, historyTracks, currentTrack>>
         ELSE IF queueIndex > 0
         THEN /\ queueTracks' = Splice(queueTracks, queueIndex)
              /\ historyTracks' = WithCurrentPlayed(historyTracks)
              /\ SetCurrentTrack(trackId)
         ELSE IF historyIndex > 0
         THEN /\ historyTracks' = WithCurrentPlayed(Splice(historyTracks, historyIndex))
              /\ SetCurrentTrack(trackId)
              /\ UNCHANGED queueTracks
         ELSE UNCHANGED <<queueTracks, historyTracks, currentTrack, audioPlaying>>
  /\ UNCHANGED <<isLoaded, tracksAdded>>

\* The body of handleNextTrack.
NextTrack ==
  IF Len(queueTracks) = 0
  THEN UNCHANGED <<queueTracks, historyTracks, currentTrack>>
  ELSE /\ queueTracks' = Tail(queueTracks)
       /\ historyTracks' = WithCurrentPlayed(historyTracks)
       /\ currentTrack' = Head(queueTracks)

HandleNextTrack ==
  /\ playlistOp' = <<"handleNextTrack">>
  /\ NextTrack
  /\ audioPlaying' = (IF Len(queueTracks) = 0 THEN audioPlaying ELSE FALSE)
  /\ UNCHANGED <<isLoaded, tracksAdded>>

HandlePreviousTrack ==
  /\ playlistOp' = <<"handlePreviousTrack">>
  /\ IF Len(historyTracks) = 0
     THEN UNCHANGED <<queueTracks, historyTracks, currentTrack, audioPlaying>>
     ELSE /\ historyTracks' = SubSeq(historyTracks, 1, Len(historyTracks) - 1)
          /\ queueTracks' = IF currentTrack # NoTrack
                            THEN <<currentTrack>> \o queueTracks
                            ELSE queueTracks
          /\ SetCurrentTrack(historyTracks[Len(historyTracks)])
  /\ UNCHANGED <<isLoaded, tracksAdded>>

\* The playback reaches the end of the file: handleEnded raises endedSignal
\* and the watcher calls handleNextTrack.
EndedSignal ==
  /\ audioPlaying
  /\ playlistOp' = <<"ended">>
  /\ NextTrack
  /\ audioPlaying' = FALSE
  /\ UNCHANGED <<isLoaded, tracksAdded>>

(***************************************************************************)
(*                            SPECIFICATIONS                               *)
(***************************************************************************)

\* The state of the application's components that are modelled on their own.
appVars == <<cvVars, wasmVars, plVars>>

AppInit == CvInit /\ WasmInit /\ PlInit

vars == <<procVars, decVars, sgVars, rndVars, fnVars, schedVars, pipeVars, appVars>>

Implementations == {"composable", "library", "decibel"}

Hosts == {"component", "library"}

\* The frame processor; the spectrogram and the renderer stay as constructed.
Init ==
  /\ \E m \in Implementations : ProcInit(m)
  /\ DecInit /\ SgInit /\ RndInit("component") /\ FnInit /\ SchedInit
    /\ PipeInit /\ AppInit

Next ==
  \/ \E cfg \in Sessions : CreateSession(cfg) /\ UNCHANGED <<decVars, sgVars, rndVars, fnVars, schedVars, pipeVars, appVars>>
  \/ \E frame \in Frames, k \in DOMAIN ProcessParams :
        Process(frame, ProcessParams[k]) /\ UNCHANGED <<decVars, sgVars, rndVars, fnVars, schedVars, pipeVars, appVars>>
  \/ \E rate \in SampleRates : InitAudioContext(rate) /\ UNCHANGED <<decVars, sgVars, rndVars, fnVars, schedVars, pipeVars, appVars>>
  \/ \E size \in FftSizes : UpdateFftSize(size) /\ UNCHANGED <<decVars, sgVars, rndVars, fnVars, schedVars, pipeVars, appVars>>
  \/ \E value \in SmoothingInputs : UpdateExtraSmoothing(value) /\ UNCHANGED <<decVars, sgVars, rndVars, fnVars, schedVars, pipeVars, appVars>>
  \/ \E enabled \in BOOLEAN : UpdatePeakHold(enabled) /\ UNCHANGED <<decVars, sgVars, rndVars, fnVars, schedVars, pipeVars, appVars>>
  \/ \E value \in DecayInputs : UpdatePeakDecay(value) /\ UNCHANGED <<decVars, sgVars, rndVars, fnVars, schedVars, pipeVars, appVars>>
  \/ \E num \in NumBandsInputs : UpdateNumBands(num) /\ UNCHANGED <<decVars, sgVars, rndVars, fnVars, schedVars, pipeVars, appVars>>
  \/ \E frame \in Frames : GetFrequencyData(frame) /\ UNCHANGED <<decVars, sgVars, rndVars, fnVars, schedVars, pipeVars, appVars>>
  \/ Cleanup /\ UNCHANGED <<decVars, sgVars, rndVars, fnVars, schedVars, pipeVars, appVars>>
  \/ \E rate \in SampleRates :
        DecInitAudioContext(rate) /\ UNCHANGED <<procVars, sgVars, rndVars, fnVars, schedVars, pipeVars, appVars>>
  \/ \E value \in SmoothingInputs :
        DecUpdateExtraSmoothing(value) /\ UNCHANGED <<procVars, sgVars, rndVars, fnVars, schedVars, pipeVars, appVars>>
  \/ \E enabled \in BOOLEAN :
        DecUpdatePeakHold(enabled) /\ UNCHANGED <<procVars, sgVars, rndVars, fnVars, schedVars, pipeVars, appVars>>
  \/ \E frame \in DecFrames :
        DecGetFrequencyData(frame) /\ UNCHANGED <<procVars, sgVars, rndVars, fnVars, schedVars, pipeVars, appVars>>

Spec == Init /\ [][Next]_vars

\* The spectrogram; the frame processor and the renderer stay as constructed.
SgNext ==
  \/ \E c \in ColumnCalls, height \in Heights :
        RenderSpectrogramColumn(c.bandData, c.minDb, c.maxDb, height, c.colorMap, c.gamma,
                                c.frequencyScale) /\ UNCHANGED <<procVars, decVars, rndVars, fnVars, schedVars, pipeVars, appVars>>
  \/ \E width \in Widths, height \in Heights :
        RenderSpectrogram(width, height) /\ UNCHANGED <<procVars, decVars, rndVars, fnVars, schedVars, pipeVars, appVars>>
  \/ ClearSpectrogramBuffer /\ UNCHANGED <<procVars, decVars, rndVars, fnVars, schedVars, pipeVars, appVars>>
  \/ ResetSpectrogramState /\ UNCHANGED <<procVars, decVars, rndVars, fnVars, schedVars, pipeVars, appVars>>

SgInitAll ==
  SgInit /\ ProcInit("composable") /\ DecInit /\ RndInit("component") /\ FnInit /\ SchedInit
    /\ PipeInit /\ AppInit

SpecSpectrogram == SgInitAll /\ [][SgNext]_vars

\* The renderer; the frame processor and the spectrogram stay as constructed.
RndInitAll ==
  /\ \E h \in Hosts : RndInit(h)
  /\ ProcInit("composable") /\ DecInit /\ SgInit /\ FnInit /\ SchedInit
    /\ PipeInit /\ AppInit

RndNext ==
  \/ \E config \in RenderConfigs, bandList \in BandLists :
        \E bandData \in BandDataFor(bandList) :
          RenderRta(config, bandList, bandData, Filled(3, -30))
            /\ UNCHANGED <<procVars, decVars, sgVars, fnVars, schedVars, pipeVars, appVars>>
  \/ \E config \in ModeConfigs, bandList \in BandLists :
        \E bandData \in LongAndEmptyData(bandList) :
          RenderRta(config, bandList, bandData, Filled(3, -30))
            /\ UNCHANGED <<procVars, decVars, sgVars, fnVars, schedVars, pipeVars, appVars>>
  \/ \E width \in Sides, db \in DbRanges :
        RenderGridCall(width, 600, db[1], db[2], 2000, 2000000)
          /\ UNCHANGED <<procVars, decVars, sgVars, fnVars, schedVars, pipeVars, appVars>>
  \/ ClearGridCache /\ UNCHANGED <<procVars, decVars, sgVars, fnVars, schedVars, pipeVars, appVars>>
  \/ ClearAllCaches /\ UNCHANGED <<procVars, decVars, sgVars, fnVars, schedVars, pipeVars, appVars>>
  \/ \E size \in ContainerSizes :
        UpdateCanvasSize(size[1], size[2]) /\ UNCHANGED <<procVars, decVars, sgVars, fnVars, schedVars, pipeVars, appVars>>
  \/ \E mode \in DisplayModes : DisplayModeChanged(mode) /\ UNCHANGED <<procVars, decVars, sgVars, fnVars, schedVars, pipeVars, appVars>>
  \/ \E range \in DbRanges : DbRangeChanged(range) /\ UNCHANGED <<procVars, decVars, sgVars, fnVars, schedVars, pipeVars, appVars>>
  \/ \E bandList \in BandLists, peakHold \in BOOLEAN :
        \E bandData \in PropsBandData(bandList) :
          DoRender(bandList, bandData, Null, peakHold) /\ UNCHANGED <<procVars, decVars, sgVars, fnVars, schedVars, pipeVars, appVars>>

SpecRender == RndInitAll /\ [][RndNext]_vars

\* The pure functions; every component stays as constructed.
FnInitAll ==
  FnInit /\ ProcInit("composable") /\ DecInit /\ SgInit /\ RndInit("component") /\ SchedInit
    /\ PipeInit /\ AppInit

FnNext ==
  \/ FnReturn /\ UNCHANGED <<procVars, decVars, sgVars, rndVars, schedVars, pipeVars, appVars>>
  \/ \E rate \in BandRates, fftSize \in BandFftSizes :
        \E numBands \in BandCounts(rate) :
          CalculateBands(numBands, rate, fftSize)
            /\ UNCHANGED <<procVars, decVars, sgVars, rndVars, schedVars, pipeVars, appVars>>
  \/ \E x \in DbInputs : DbToLinear(x) /\ UNCHANGED <<procVars, decVars, sgVars, rndVars, schedVars, pipeVars, appVars>>
  \/ \E x \in DbInputs : FastDbToLinear(x) /\ UNCHANGED <<procVars, decVars, sgVars, rndVars, schedVars, pipeVars, appVars>>
  \/ \E x \in LinearInputs : LinearToDb(x) /\ UNCHANGED <<procVars, decVars, sgVars, rndVars, schedVars, pipeVars, appVars>>
  \/ \E x \in LinearInputs : FastLinearToDb(x) /\ UNCHANGED <<procVars, decVars, sgVars, rndVars, schedVars, pipeVars, appVars>>
  \/ \E c \in RowCalls, height \in 1 .. (MaxHeight + 1) :
        SpectrogramRows(c, height)
          /\ UNCHANGED <<procVars, decVars, sgVars, rndVars, schedVars, pipeVars, appVars>>

SpecFunctions == FnInitAll /\ [][FnNext]_vars

\* The animation-frame callbacks; every component stays as constructed.
SchedInitAll ==
  SchedInit /\ ProcInit("composable") /\ DecInit /\ SgInit /\ RndInit("component") /\ FnInit
    /\ PipeInit /\ AppInit

SchedNext ==
  \/ StartUpdateLoop /\ UNCHANGED <<procVars, decVars, sgVars, rndVars, fnVars, pipeVars, appVars>>
  \/ \E playing \in BOOLEAN :
        SetPlaying(playing) /\ UNCHANGED <<procVars, decVars, sgVars, rndVars, fnVars, pipeVars, appVars>>
  \/ SwitchCanvas /\ UNCHANGED <<procVars, decVars, sgVars, rndVars, fnVars, pipeVars, appVars>>
  \/ BeginFrame /\ UNCHANGED <<procVars, decVars, sgVars, rndVars, fnVars, pipeVars, appVars>>
  \/ RunUpdate /\ UNCHANGED <<procVars, decVars, sgVars, rndVars, fnVars, pipeVars, appVars>>
  \/ RunRenderLoop /\ UNCHANGED <<procVars, decVars, sgVars, rndVars, fnVars, pipeVars, appVars>>

SpecSchedule == SchedInitAll /\ [][SchedNext]_vars

\* The pipeline of the application: each frame processed by the composable
\* is copied into the application's buffers and drawn by renderRta, or
\* written to the spectrogram and composited.
PipeInitAll ==
  PipeInit /\ ProcInit("composable") /\ DecInit /\ SgInit /\ RndInit("library") /\ FnInit
    /\ SchedInit /\ AppInit

PipeNext ==
  \/ \E rate \in SampleRates :
        PipeInitAudioContext(rate)
          /\ UNCHANGED <<decVars, sgVars, rndVars, fnVars, schedVars, appVars>>
  \/ \E frame \in Frames :
        PipeUpdateFrequencyData(frame)
          /\ UNCHANGED <<decVars, sgVars, rndVars, fnVars, schedVars, appVars>>
  \/ \E config \in PipeConfigs :
        PipeRenderRta(config) /\ UNCHANGED <<procVars, decVars, sgVars, fnVars, schedVars, appVars>>
  \/ \E height \in Heights :
        PipeRenderSpectrogramColumn(height)
          /\ UNCHANGED <<procVars, decVars, rndVars, fnVars, schedVars, appVars>>
  \/ \E width \in Widths, height \in Heights :
        PipeRenderSpectrogram(width, height)
          /\ UNCHANGED <<procVars, decVars, rndVars, fnVars, schedVars, appVars>>

SpecPipeline == PipeInitAll /\ [][PipeNext]_vars

\* The spectrogram canvas: frames, play and pause, and the scrolling speed.
CvInitAll ==
  AppInit /\ ProcInit("composable") /\ DecInit /\ SgInit /\ RndInit("component") /\ FnInit
    /\ SchedInit /\ PipeInit

CvNext ==
  \/ \E playing \in BOOLEAN :
        CvSetPlaying(playing)
          /\ UNCHANGED <<procVars, decVars, sgVars, rndVars, fnVars, schedVars, pipeVars, wasmVars, plVars>>
  \/ \E interval \in ColumnIntervals :
        CvSetColumnInterval(interval)
          /\ UNCHANGED <<procVars, decVars, sgVars, rndVars, fnVars, schedVars, pipeVars, wasmVars, plVars>>
  \/ \E timestamp \in 1 .. MaxStamp, bandData \in CanvasBandData :
        CvDoRender(timestamp, bandData)
          /\ UNCHANGED <<procVars, decVars, rndVars, fnVars, schedVars, pipeVars, wasmVars, plVars>>
  \/ CvRenderSpectrogram
        /\ UNCHANGED <<procVars, decVars, rndVars, fnVars, schedVars, pipeVars, wasmVars, plVars>>

SpecCanvas == CvInitAll /\ [][CvNext]_vars

\* renderRta called directly with changing viewports and band lists, among
\* them two band lists of the same length.
GeoBandLists ==
  {calculateBands(2, 48000, 512), calculateBands(2, 4000, 512),
   calculateBands(3, 48000, 512)}

GeoInitAll ==
  /\ RndInit("library")
  /\ ProcInit("composable") /\ DecInit /\ SgInit /\ FnInit /\ SchedInit /\ PipeInit
  /\ AppInit

GeoNext ==
  \/ \E config \in RenderConfigs, bandList \in GeoBandLists :
        \E bandData \in PropsBandData(bandList) :
          RenderRta(config, bandList, bandData, Filled(3, -30))
            /\ UNCHANGED <<procVars, decVars, sgVars, fnVars, schedVars, pipeVars, appVars>>
  \/ ClearAllCaches
        /\ UNCHANGED <<procVars, decVars, sgVars, fnVars, schedVars, pipeVars, appVars>>

SpecGeometry == GeoInitAll /\ [][GeoNext]_vars

\* Callers of ensureMetadataWasmLoaded, interleaved with the settling of the
\* promises.
WasmInitAll ==
  /\ AppInit
  /\ ProcInit("composable") /\ DecInit /\ SgInit /\ RndInit("component") /\ FnInit
  /\ SchedInit /\ PipeInit

WasmNext ==
  \/ \E c \in Callers : \E init \in InitOptions(c) :
        EnsureMetadataWasmLoaded(c, init)
          /\ UNCHANGED <<procVars, decVars, sgVars, rndVars, fnVars, schedVars, pipeVars, cvVars, plVars>>
  \/ \E ok \in BOOLEAN :
        InitSettles(ok)
          /\ UNCHANGED <<procVars, decVars, sgVars, rndVars, fnVars, schedVars, pipeVars, cvVars, plVars>>
  \/ LoadingSettles
        /\ UNCHANGED <<procVars, decVars, sgVars, rndVars, fnVars, schedVars, pipeVars, cvVars, plVars>>
  \/ \E c \in Callers :
        CallerSettles(c)
          /\ UNCHANGED <<procVars, decVars, sgVars, rndVars, fnVars, schedVars, pipeVars, cvVars, plVars>>

SpecWasm == WasmInitAll /\ [][WasmNext]_vars

\* The playlist handlers in any order, among the events of the transport.
PlInitAll ==
  /\ AppInit
  /\ ProcInit("composable") /\ DecInit /\ SgInit /\ RndInit("component") /\ FnInit
  /\ SchedInit /\ PipeInit

PlNext ==
  \/ FirstTrackSelected /\ UNCHANGED <<procVars, decVars, sgVars, rndVars, fnVars, schedVars, pipeVars, cvVars, wasmVars>>
  \/ RemainingTracksEnriched /\ UNCHANGED <<procVars, decVars, sgVars, rndVars, fnVars, schedVars, pipeVars, cvVars, wasmVars>>
  \/ \E loaded, playing \in BOOLEAN : AudioEvent(loaded, playing) /\ UNCHANGED <<procVars, decVars, sgVars, rndVars, fnVars, schedVars, pipeVars, cvVars, wasmVars>>
  \/ HandlePlay /\ UNCHANGED <<procVars, decVars, sgVars, rndVars, fnVars, schedVars, pipeVars, cvVars, wasmVars>>
  \/ \E trackId \in TrackIds, direction \in Directions :
        MoveQueueTrack(trackId, direction) /\ UNCHANGED <<procVars, decVars, sgVars, rndVars, fnVars, schedVars, pipeVars, cvVars, wasmVars>>
  \/ \E trackId \in TrackIds : HandleSelectTrack(trackId) /\ UNCHANGED <<procVars, decVars, sgVars, rndVars, fnVars, schedVars, pipeVars, cvVars, wasmVars>>
  \/ HandleNextTrack /\ UNCHANGED <<procVars, decVars, sgVars, rndVars, fnVars, schedVars, pipeVars, cvVars, wasmVars>>
  \/ HandlePreviousTrack /\ UNCHANGED <<procVars, decVars, sgVars, rndVars, fnVars, schedVars, pipeVars, cvVars, wasmVars>>
  \/ EndedSignal /\ UNCHANGED <<procVars, decVars, sgVars, rndVars, fnVars, schedVars, pipeVars, cvVars, wasmVars>>

SpecPlaylist == PlInitAll /\ [][PlNext]_vars

(***************************************************************************)
(* Spectrogram: properties                                                 *)
(***************************************************************************)

\* Column c of the ring, as a function of the row.
RingColumn(c) == [y \in DOMAIN spectrogramData |-> spectrogramData[y][c]]

BlankColumn == [y \in DOMAIN spectrogramData |-> Background]

\* The number of surface columns the last composite drew.
DrawnCols == IF Len(blits) = 0 THEN 0 ELSE blits[Len(blits)][3] + blits[Len(blits)][2]

\* The ring column drawn at surface column x by the last composite.
SurfaceColumn(x) ==
  LET b == CHOOSE b \in {blits[i] : i \in 1 .. Len(blits)} : b[3] <= x /\ x < b[3] + b[2]
  IN  RingColumn(b[1] + (x - b[3]))

\* The ring index of the k-th entry of the history (1 = oldest).
HistIndex(k) ==
  (writeColumn + 2 * SPECTROGRAM_WIDTH - 1 - (Len(hist) - k)) % SPECTROGRAM_WIDTH

\* C2: after any number of column writes, also more than one ring, the composite
\* shows the last min(width, W) columns written, oldest left and newest at the
\* right edge (background where fewer columns were written): an evicted column
\* never appears.
C2_WindowIsLastColumns ==
  sgOp = "composite" =>
    /\ DrawnCols = Min(surfaceWidth, SPECTROGRAM_WIDTH)
    /\ \A x \in 0 .. (DrawnCols - 1) :
         LET k == Len(hist) - DrawnCols + x + 1
         IN  SurfaceColumn(x) = IF k >= 1 THEN hist[k] ELSE BlankColumn

C2_Witness ==
  /\ sgOp = "composite"
  /\ written > SPECTROGRAM_WIDTH
  /\ Len(blits) = 2
  /\ \E i, j \in 1 .. Len(hist) : hist[i] # hist[j]

\* C3 (as stated): after a column write the ring column at writeColumn holds the
\* spectrum just written.
C3_NewestAtCursor ==
  sgOp = "column" => RingColumn(writeColumn) = hist[Len(hist)]

\* C3 (amended): after a column write the newest spectrum is in the column before
\* the cursor, the ring holds the history in write order behind the cursor, and
\* once the ring is full the column at the cursor is the oldest one.
C3_NewestBeforeCursor ==
  sgOp = "column" =>
    /\ Len(hist) >= 1
    /\ \A k \in 1 .. Len(hist) : RingColumn(HistIndex(k)) = hist[k]
    /\ Len(hist) = SPECTROGRAM_WIDTH => RingColumn(writeColumn) = hist[1]

C3_Witness ==
  /\ sgOp = "column"
  /\ written > SPECTROGRAM_WIDTH
  /\ hist[1] # hist[Len(hist)]

\* C4: the cursor stays in [0, W); a column write advances it by one modulo W,
\* clear, reset and first allocation zero it, a composite and a height change of
\* an allocated buffer leave it alone.
C4_CursorStep ==
  /\ sgOp' = "column" => writeColumn' = (writeColumn + 1) % SPECTROGRAM_WIDTH
  /\ sgOp' \in {"clear", "reset"} => writeColumn' = 0
  /\ sgOp' = "composite" =>
       writeColumn' = IF spectrogramData = Null THEN 0 ELSE writeColumn
  /\ sgRealloc' = "first" /\ sgOp' = "composite" => writeColumn' = 0

C4_Cursor == [](writeColumn \in Cols) /\ [][C4_CursorStep]_sgVars

C4_Witness ==
  /\ sgOp = "composite"
  /\ sgRealloc = "resize"
  /\ writeColumn > 0

\* C5: a height change copies, for every column and every row newY of the new
\* buffer, the old pixel at row floor(newY / newHeight * oldHeight).
C5_ResampleStep ==
  sgRealloc' = "resize" =>
    \A c \in Cols : \A newY \in 0 .. (bufferHeight' - 1) :
      (sgOp' = "column" /\ c = writeColumn)
      \/ spectrogramData'[newY][c] =
           spectrogramData[(newY * bufferHeight) \div bufferHeight'][c]

C5_ResampleAllRows == [][C5_ResampleStep]_sgVars

(***************************************************************************)
(* Frame processor: properties                                             *)
(***************************************************************************)

PeakHoldOn == IF impl = "composable" THEN cachedPeakHold ELSE params.peakHold
PeakDecayNow == IF impl = "composable" THEN cachedPeakDecay ELSE params.peakDecay

\* A step that feeds one more silent frame to a session that so far saw one
\* loud frame followed by silence, with peak hold enabled.
QuietTick == quiet >= 0 /\ quiet' = quiet + 1 /\ PeakHoldOn

Decayed(i) == (peaksLinear[i] * PeakDecayNow[1]) \div PeakDecayNow[2]

C1_StrictDecayStep ==
  (QuietTick /\ 0 < PeakDecayNow[1] /\ PeakDecayNow[1] < PeakDecayNow[2]) =>
    \A i \in burst :
      IF quiet' <= HoldFrames(params)
      THEN peaksLinear'[i] = peaksLinear[i]
      ELSE peaksLinear'[i] < peaksLinear[i] /\ peaksLinear'[i] = Decayed(i)

C1_DecayToFloorStep ==
  QuietTick =>
    \A i \in burst :
      IF quiet' <= HoldFrames(params)
      THEN peaksLinear'[i] = peaksLinear[i]
      ELSE /\ peaksLinear'[i] = Max(Decayed(i), minLinear)
           /\ (Decayed(i) > minLinear /\ PeakDecayNow[1] < PeakDecayNow[2])
                => (peaksLinear'[i] < peaksLinear[i] /\ peaksLinear'[i] = Decayed(i))

C8_DbFollowsLinear ==
  op = "frame" =>
    \A i \in DOMAIN smoothedLinear :
      /\ smoothedDb[i] = fastLinearToDb(smoothedLinear[i])
      /\ peaksDb[i] = fastLinearToDb(peaksLinear[i])

Reinitialized ==
  /\ bands = calculateBands(params.numBands, sampleRate, params.fftSize)
  /\ bandCount = params.numBands
  /\ binStarts = BinStartsOf(bands)
  /\ binEnds = BinEndsOf(bands)
  /\ smoothedLinear = Filled(params.numBands, MinLinearOf(params.minDb))
  /\ peaksLinear = Filled(params.numBands, MinLinearOf(params.minDb))
  /\ peakHoldCounters = Filled(params.numBands, 0)
  /\ smoothedDb = Filled(params.numBands, params.minDb)
  /\ peaksDb = Filled(params.numBands, params.minDb)

\* C10: after every updateFftSize and every updateNumBands the band list, the
\* bin ranges and the five state arrays are those of a fresh initialization
\* under the new settings: lengths equal to the band count, linear values at
\* minLinear, dB values at minDb, hold counters at 0.
C10_FullReinit == op \in {"updateFftSize", "updateNumBands"} => Reinitialized

(***************************************************************************)
(*                 PROPERTIES OF THE RENDER CACHES                         *)
(***************************************************************************)

\* (width, height, minFreq, maxFreq, bands.length) of a recorded renderRta call.
CallKey(c) == <<c[1], c[2], c[3], c[4], Cardinality(DOMAIN c[5])>>

\* The cache holds the geometry of the recorded call, all of it computed anew.
FreshGeometry(c, k) ==
  /\ c.xCenters = [i \in DOMAIN k[5] |-> FreqX(k[5][i].freqCenter, k[1], k[3], k[4])]
  /\ c.xStarts = [i \in DOMAIN k[5] |-> FreqX(k[5][i].freqStart, k[1], k[3], k[4])]
  /\ c.barWidths = [i \in DOMAIN k[5] |->
                      Max(1000, FreqX(k[5][i].freqEnd, k[1], k[3], k[4])
                                - FreqX(k[5][i].freqStart, k[1], k[3], k[4]) - 1000)]
  /\ DOMAIN c.yCoords = DOMAIN k[5]

\* The gradients of the cache before the call are gone: the one gradient there
\* may be is the one of the call's display mode, made for the call's height.
GradientsDropped(c, k) ==
  /\ c.barGradient \in {Null, <<k[2]>>}
  /\ c.lineGradient \in {Null, <<k[2]>>}
  /\ c.barGradient = Null \/ c.lineGradient = Null

C6_KeyAtRead == readers # {} => cache # Null /\ CacheKey(cache[1]) = CallKey(call)

C6_RebuildStep ==
  (call' # Null /\ cache # Null /\ CacheKey(cache[1]) # CallKey(call'))
    => /\ cacheUse' = "rebuilt"
       /\ FreshGeometry(cache'[1], call')
       /\ GradientsDropped(cache'[1], call')

SameKeyGridCall ==
  /\ gridUse' # "none"
  /\ lastGridKey # << >>
  /\ lastGridKey' = lastGridKey

\* C7 as stated: in the component, where the only other events are canvas
\* resizes, display-mode changes and minDb/maxDb changes, a renderGrid call
\* whose key equals the key of the previous renderGrid call returns the
\* existing surface without redrawing it.
C7_SameKeyNeverRedraws ==
  [][host = "component" /\ SameKeyGridCall => gridUse' = "reused"]_vars

C7_ReuseStep ==
  SameKeyGridCall =>
    IF clearedSince
    THEN gridUse' = "drawn"
    ELSE gridUse' = "reused" /\ UNCHANGED <<gridCanvas, gridConfig>>

\* C7 amended: a renderGrid call whose key equals the key of the previous
\* renderGrid call returns the existing surface without redrawing it if
\* clearGridCache has not run in between, and redraws the surface if it has.
C7_SameKeyReusesUnlessCleared == [][C7_ReuseStep]_vars

\* The component rendered twice with the same key and nothing in between: the
\* second call reused the surface.
C7_Witness == host = "component" /\ gridUse = "reused" /\ gridCanvas # Null

(***************************************************************************)
(* Frame processor: further properties                                     *)
(***************************************************************************)

\* The extraSmoothing in force for the frame just processed.
SmoothingNow == IF impl = "composable" THEN cachedInvAlpha ELSE params.extraSmoothing

\* The band average of the frame just processed.
FrameAverage(i) == BandAverage(lastFrame[1], binStarts[i], binEnds[i])

\* C11 as stated: with extraSmoothing = 0, after every processed frame
\* smoothedLinear[i] equals that frame's band average, for every band i.
C11_SmoothedIsAverage ==
  (op = "frame" /\ SmoothingNow[1] = 0) =>
    \A i \in DOMAIN smoothedLinear : smoothedLinear[i] = FrameAverage(i)

\* C11 amended: with extraSmoothing = 0, after every processed frame
\* smoothedLinear[i] equals that frame's band average raised to minLinear when
\* it is below it, whatever smoothedLinear[i] was before the frame.
C11_SmoothedIsClampedAverage ==
  (op = "frame" /\ SmoothingNow[1] = 0) =>
    \A i \in DOMAIN smoothedLinear :
      smoothedLinear[i] = ClampLow(FrameAverage(i), minLinear)

\* A frame was processed without smoothing after a louder one: a band holds
\* the average of the frame, above the floor and below the peak that the
\* earlier frame left.
C11_Witness ==
  /\ op = "frame"
  /\ SmoothingNow[1] = 0
  /\ \E i \in DOMAIN smoothedLinear :
       /\ smoothedLinear[i] = FrameAverage(i)
       /\ smoothedLinear[i] > minLinear
       /\ peaksLinear[i] > smoothedLinear[i]

\* Every bin of the band is NaN or at most `level`: no bin carries a signal.
NoSignal(frame, binStart, binEnd, level) ==
  \A bin \in binStart .. binEnd : IsNaN(FrameAt(frame, bin)) \/ FrameAt(frame, bin) <= level

\* The frame with every NaN replaced by silence.
WithoutNaN(frame) ==
  [frame EXCEPT !.base = IF IsNaN(@) THEN DB_MIN ELSE @,
                !.tone = IF IsNaN(@) THEN DB_MIN ELSE @]

\* After a frame, in the implementations that average linear power: a NaN bin
\* counts as a silent bin, and a band without signal averages to the least
\* power.  In the implementation that averages decibels: the outputs are
\* numbers within [minDb, maxDb].
C15_NoNaNInState ==
  /\ op = "frame" =>
       \A i \in DOMAIN smoothedLinear :
         /\ FrameAverage(i) = BandAverage(WithoutNaN(lastFrame[1]), binStarts[i], binEnds[i])
         /\ NoSignal(lastFrame[1], binStarts[i], binEnds[i], DB_MIN)
              => FrameAverage(i) = MIN_LINEAR_POWER
         /\ smoothedLinear[i] >= minLinear
         /\ peaksLinear[i] >= minLinear
  /\ decOp = "frame" =>
       \A i \in DOMAIN smoothedData :
         /\ ~IsNaN(smoothedData[i]) /\ ~IsNaN(peakLevels[i])
         /\ DecMinDb <= smoothedData[i] /\ smoothedData[i] <= DecMaxDb
         /\ DecMinDb <= peakLevels[i] /\ peakLevels[i] <= DecMaxDb

\* A frame step: a band without signal is smoothed towards the floor, as if
\* its average were minLinear (minDb in the decibel implementation).
C15_NoSignalStep ==
  /\ (op' = "frame" /\ lastFrame' # Null) =>
       \A i \in DOMAIN smoothedLinear' :
         NoSignal(lastFrame'[1], binStarts[i], binEnds[i], DB_MIN) =>
           smoothedLinear'[i] =
             ClampLow(Ema(smoothedLinear[i], SmoothingNow', minLinear,
                          OneMinus(SmoothingNow')), minLinear)
  /\ (decOp' = "frame" /\ decFrame' # Null) =>
       \A i \in DOMAIN smoothedData' :
         NoSignal(decFrame'[1], decBands[i].binStart, decBands[i].binEnd, SILENCE_LEVEL) =>
           smoothedData'[i] = SmoothDb(smoothedData[i], emaInvAlpha, DecMinDb)

C15_WitnessDecibel ==
  /\ decOp = "frame"
  /\ decFrame = <<NaNToneFrame>>
  /\ \E i, j \in DOMAIN smoothedData :
       /\ NoSignal(NaNToneFrame, decBands[i].binStart, decBands[i].binEnd, SILENCE_LEVEL)
       /\ smoothedData[i] = DecMinDb
       /\ smoothedData[j] > DecMinDb
(***************************************************************************)
(*                  PROPERTIES OF THE PURE FUNCTIONS                       *)
(***************************************************************************)

\* C12: every band calculateBands returns has
\* 0 <= binStart <= binEnd <= fftSize / 2 - 1 and freqStart < freqEnd, so the
\* averaging loops read only bins of the analyser's frame.
C12_BandsWithinFrame ==
  fnOp = "calculateBands" =>
    \A i \in DOMAIN fnResult :
      LET band == fnResult[i]
          last == fnArgs[3] \div 2 - 1
      IN  /\ 0 <= band.binStart
          /\ band.binStart <= band.binEnd
          /\ band.binEnd <= last
          /\ band.freqStart < band.freqEnd
          /\ BinsRead(band.binStart, band.binEnd) # {}
          /\ BinsRead(band.binStart, band.binEnd) \subseteq 0 .. last

\* A band list of at least MIN_BANDS bands whose last band ends above the
\* analyser's last bin, where the bin end is cut to that last bin.
C12_Witness ==
  /\ fnOp = "calculateBands"
  /\ fnArgs[1] >= MIN_BANDS
  /\ \E i \in DOMAIN fnResult :
       /\ BinEndUnclamped(fnResult[i].freqEnd, fnArgs[2], fnArgs[3]) > fnArgs[3] \div 2 - 1
       /\ fnResult[i].binEnd = fnArgs[3] \div 2 - 1
       /\ fnResult[i].binStart <= fnResult[i].binEnd

Abs(n) == IF n < 0 THEN -n ELSE n

\* A finite argument inside the table domain.
InDbDomain(x) == IsNum(x) /\ DB_MIN <= x[2] /\ x[2] <= DB_MAX
InLinearDomain(x) == IsNum(x) /\ MIN_LINEAR_POWER <= x[2] /\ x[2] <= MAX_LINEAR_POWER

Conversions == {"dbToLinear", "fastDbToLinear", "linearToDb", "fastLinearToDb"}

\* The number of parts of a unit in which a conversion to linear power
\* returns its value.
PartsOf(name) == IF name = "dbToLinear" THEN 10 ELSE 1

\* C14: whatever the argument, a conversion function returns a number, not
\* NaN, every table index it reads lies in [0, LUT_SIZE - 1], dbToLinear and
\* fastDbToLinear return MIN_LINEAR_POWER for db <= DB_MIN and
\* MAX_LINEAR_POWER for db >= DB_MAX, and linearToDb and fastLinearToDb return
\* DB_MIN for linear <= MIN_LINEAR_POWER and DB_MAX for linear >=
\* MAX_LINEAR_POWER.
C14_Saturates ==
  fnOp \in Conversions =>
    /\ IsNum(fnResult.value)
    /\ fnResult.indices \subseteq 0 .. LUT_SIZE_MINUS_1
    /\ (fnOp \in {"dbToLinear", "fastDbToLinear"} /\ IsNum(fnArgs[1])) =>
         /\ fnArgs[1][2] <= DB_MIN => fnResult.value[2] = PartsOf(fnOp) * MIN_LINEAR_POWER
         /\ fnArgs[1][2] >= DB_MAX => fnResult.value[2] = PartsOf(fnOp) * MAX_LINEAR_POWER
    /\ (fnOp \in {"linearToDb", "fastLinearToDb"} /\ IsNum(fnArgs[1])) =>
         /\ fnArgs[1][2] <= MIN_LINEAR_POWER => fnResult.value[2] = DB_MIN
         /\ fnArgs[1][2] >= MAX_LINEAR_POWER => fnResult.value[2] = DB_MAX
(***************************************************************************)
(*                PROPERTIES OF THE RENDERER, CONTINUED                    *)
(***************************************************************************)

\* The bands both a band list and a data array of these lengths have.
Prefix(bandsLength, length) == 0 .. (Min(bandsLength, length) - 1)

\* C16 as stated: whatever the lengths, a renderRta call plots exactly the
\* bands that the band list and the data array both have, the spectrum from
\* bandData and the peak line from peakData.
C16_DrawsExactPrefix ==
  (rOp = "renderRta" /\ drawn # Null) =>
    /\ drawn[1].spectrum = Prefix(drawn[1].bandsLength, drawn[1].dataLength)
    /\ drawn[1].showPeaks =>
         drawn[1].peaks = Prefix(drawn[1].bandsLength, drawn[1].peakLength)

\* C16, amended: a renderRta call plots no band outside the overlapping
\* prefix, and plots all of it except that the line mode plots nothing when
\* the prefix has fewer than two bands and that nothing, the peak line
\* included, is plotted when the band list or bandData is empty; every index
\* it reads is below the length of the band list, of the data array and of the
\* arrays of the geometry cache.
C16_DrawsPrefixWithinBounds ==
  (rOp = "renderRta" /\ drawn # Null) =>
    LET d        == drawn[1]
        spectrum == Prefix(d.bandsLength, d.dataLength)
        peaks    == Prefix(d.bandsLength, d.peakLength)
        nothing  == d.bandsLength = 0 \/ d.dataLength = 0
    IN  /\ d.spectrum = IF nothing \/ (d.displayMode = "line" /\ Cardinality(spectrum) < 2)
                        THEN {} ELSE spectrum
        /\ d.peaks = IF nothing \/ ~d.showPeaks THEN {} ELSE peaks
        /\ d.spectrum \subseteq 0 .. (d.dataLength - 1)
        /\ d.peaks \subseteq 0 .. (d.peakLength - 1)
        /\ d.spectrum \cup d.peaks \subseteq 0 .. (d.bandsLength - 1)
        /\ (d.spectrum \cup d.peaks) # {} =>
             /\ cache # Null
             /\ d.spectrum \cup d.peaks \subseteq DOMAIN cache[1].xCenters
             /\ d.spectrum \subseteq DOMAIN cache[1].xStarts
             /\ d.spectrum \subseteq DOMAIN cache[1].barWidths
             /\ d.spectrum \subseteq DOMAIN cache[1].yCoords

\* A call with fewer data than bands and more peaks than bands, served from
\* the cache of an earlier call: the spectrum stops at the data, the peak line
\* at the bands.
C16_Witness ==
  /\ rOp = "renderRta"
  /\ drawn # Null
  /\ drawn[1].dataLength < drawn[1].bandsLength
  /\ drawn[1].bandsLength < drawn[1].peakLength
  /\ drawn[1].spectrum = 0 .. (drawn[1].dataLength - 1)
  /\ drawn[1].spectrum # {}
  /\ drawn[1].peaks = 0 .. (drawn[1].bandsLength - 1)
  /\ cacheUse = "reused"
(***************************************************************************)
(*               PROPERTIES OF THE ANIMATION-FRAME CALLBACKS               *)
(***************************************************************************)

\* C17: in every frame in which App's update callback wrote the dB arrays, the
\* canvas's doRender of that frame read the arrays of that frame, not those of
\* an earlier one - whatever the order in which the callbacks were registered.
C17_ProcessorBeforeRender ==
  (tickVersion # 0 /\ lastDraw[1].tick = tick) => lastDraw[1].version >= tickVersion

(***************************************************************************)
(*                 SPECTROGRAM COLOUR TABLE PROPERTIES                     *)
(***************************************************************************)

\* The column a call writes when its pixels come from createColorMapLUT of
\* the call's own colorMap.
ColumnOfCall(columnCall, height) ==
  [y \in 0 .. (height - 1) |->
     createColorMapLUT(columnCall.colorMap)[
       RowLutIndex(y, height, columnCall.bandData, columnCall.minDb,
                   columnCall.maxDb, columnCall.gamma,
                   columnCall.frequencyScale)]]

\* After a column call the table in use is createColorMapLUT of the call's
\* colorMap, and the written column is coloured by it.
C18_TableOfCall ==
  sgOp = "column" =>
    /\ colorLut = lastColorMap
    /\ currentColorMap = lastColorMap
    /\ \E columnCall \in ColumnCalls :
         /\ columnCall.colorMap = lastColorMap
         /\ hist[Len(hist)] = ColumnOfCall(columnCall, bufferHeight)

\* A column call rebuilds the table only if it is the first one or its
\* colorMap differs from that of the previous column call.
C18_RebuildStep ==
  (sgOp' = "column" /\ lutRebuilt') =>
    (lastColorMap = "null" \/ lastColorMap # lastColorMap')

\* C18: in any sequence of renderSpectrogramColumn calls the colour table
\* used for a column is createColorMapLUT of the colorMap passed to that
\* call, and the table is rebuilt only on the first call and on calls whose
\* colorMap differs from that of the previous call.
C18_LutFollowsColorMap == []C18_TableOfCall /\ [][C18_RebuildStep]_vars

\* A second call with the same colorMap has kept the table built by the call
\* before it.
C18_Witness ==
  /\ sgOp = "column"
  /\ ~lutRebuilt
  /\ lastColorMap = "inferno"
  /\ colorLut = "inferno"
  /\ Len(hist) >= 2

\* A call has rebuilt the table.
C18_WitnessRebuilt ==
  /\ sgOp = "column"
  /\ lutRebuilt
  /\ written >= 2

(***************************************************************************)
(*                 PARAMETER RANGES AND OWNERSHIP                          *)
(***************************************************************************)

\* A fraction <<num, den>> (den > 0) within [0, 1], and within (0, 1).
InClosedUnit(f) == 0 <= f[1] /\ f[1] <= f[2]
InOpenUnit(f) == 0 < f[1] /\ f[1] < f[2]

\* The band count the frame processor works with: params.numBands, and
\* cachedBandsLength once the arrays exist.
BandCountInRange ==
  /\ params.numBands \in MIN_BANDS .. MAX_BANDS
  /\ bandCount # 0 => bandCount \in MIN_BANDS .. MAX_BANDS

\* C19: after any sequence of updateNumBands, updateExtraSmoothing and
\* updatePeakDecay calls the stored parameters satisfy bandCount in
\* [16, 14844], extraSmoothing in [0, 1] and peakDecay in the open interval
\* (0, 1).
C19_ParametersInRange ==
  impl = "composable" =>
    /\ BandCountInRange
    /\ InClosedUnit(params.extraSmoothing) /\ InClosedUnit(cachedInvAlpha)
    /\ InOpenUnit(params.peakDecay) /\ InOpenUnit(cachedPeakDecay)

\* What the clamps of the setters do establish: peakDecay within [0, 1].
C19_ParametersInClosedRange ==
  impl = "composable" =>
    /\ BandCountInRange
    /\ InClosedUnit(params.extraSmoothing) /\ InClosedUnit(cachedInvAlpha)
    /\ InClosedUnit(params.peakDecay) /\ InClosedUnit(cachedPeakDecay)

\* The step is one of a renderer (renderRta, renderSpectrogramColumn,
\* renderSpectrogram), or one of the frame processor.
RendererStep == stage \in {"draw", "composite"}
ProcessorStep == stage \in {"load", "update"}

\* C20: renderRta, renderSpectrogramColumn and renderSpectrogram never modify
\* the dB arrays or the band list they are given (nor the processor's own),
\* and the frame processor never modifies the geometry cache, the grid
\* cache, or the spectrogram buffer and its write cursor.
C20_Step ==
  /\ RendererStep =>
       UNCHANGED <<bandDataBuffer, peakDataBuffer, appBands, smoothedDb, peaksDb, bands>>
  /\ ProcessorStep =>
       UNCHANGED <<cache, gridCanvas, gridConfig, spectrogramData, bufferHeight,
                   writeColumn>>

C20_SingleWriter == [][C20_Step]_vars

\* Frames have been processed, renderRta has built its caches from their
\* levels and the spectrogram has taken a column of them and has been
\* composited; the levels now in the buffers lie above the drawn range, where
\* the renderers clamp what they read.
C20_Witness ==
  /\ stage = "update"
  /\ op = "frame"
  /\ cache # Null /\ gridCanvas # Null
  /\ spectrogramData # Null /\ written >= 1 /\ sgOp = "composite"
  /\ \E i \in DOMAIN bandDataBuffer : bandDataBuffer[i] > PipeColumn.maxDb
  /\ \E i \in DOMAIN peakDataBuffer : peakDataBuffer[i] > PipeColumn.maxDb

(***************************************************************************)
(*                  PROPERTIES OF THE SPECTROGRAM CANVAS                   *)
(***************************************************************************)

\* A step in which the canvas writes a column after an earlier one.
NextColumnWrite == cvWrites' = cvWrites + 1 /\ lastWriteStamp # -1

\* At most one column per frame.
OneColumnPerFrame ==
  /\ cvWrites' \in {cvWrites, cvWrites + 1}
  /\ written' <= written + 1
  /\ cvWrites' = cvWrites + 1 => (cvStamp' > lastWriteStamp /\ cvStamp' > cvStamp)

\* C21 (as stated): doRender writes at most one column per animation frame,
\* and in every sequence of frames and play/pause transitions two consecutive
\* column writes are at least columnInterval apart.
C21_Throttled ==
  [][/\ OneColumnPerFrame
     /\ NextColumnWrite => cvStamp' - lastWriteStamp >= cvInterval]_vars

\* C21 (amended): doRender writes at most one column per animation frame, and
\* two consecutive column writes with no pause between them are at least
\* columnInterval apart.
C21_ThrottledWhilePlaying ==
  [][/\ OneColumnPerFrame
     /\ (NextColumnWrite /\ ~pausedSince) => cvStamp' - lastWriteStamp >= cvInterval]_vars

\* Two columns were written without a pause, and the playing frame after the
\* second, less than columnInterval later, wrote none.
C21_Witness ==
  /\ cvWrites = 2
  /\ cvPlaying /\ ~pausedSince
  /\ cvPc = "composite"
  /\ cvStamp > lastWriteStamp
  /\ cvStamp - lastWriteStamp < cvInterval
  /\ sgOp = "composite"

(***************************************************************************)
(*                 THE BLOCK COPIES OF renderSpectrogram                   *)
(***************************************************************************)

\* min(outputWidth, W) of the latest composite.
VisibleCols == Min(surfaceWidth, SPECTROGRAM_WIDTH)

\* The copies read columns of the ring only, are not empty, and their widths
\* sum to the visible window.
CopiesWithinRing ==
  /\ \A k \in DOMAIN blits :
       blits[k][1] >= 0 /\ blits[k][2] >= 1 /\ blits[k][1] + blits[k][2] <= SPECTROGRAM_WIDTH
  /\ Len(blits) = 1 => blits[1][2] = VisibleCols
  /\ Len(blits) = 2 => blits[1][2] + blits[2][2] = VisibleCols

\* Two copies: the tail of the ring drawn at the left edge, then the head
\* drawn to its right.
TailThenHead ==
  /\ Len(blits) = 2
  /\ blits[1][1] + blits[1][2] = SPECTROGRAM_WIDTH /\ blits[1][3] = 0
  /\ blits[2][1] = 0 /\ blits[2][3] = blits[1][2]

\* C22 (as stated): one block copy when the cursor has advanced past the
\* visible window, two (tail, then head) otherwise; the widths sum to the
\* visible window and no copy reads outside the ring.
C22_OneOrTwoCopies ==
  sgOp = "composite" =>
    /\ CopiesWithinRing
    /\ IF writeColumn >= VisibleCols THEN Len(blits) = 1 ELSE TailThenHead

\* C22 (amended): one block copy when the cursor is at or past the visible
\* window or at column 0, two (tail, then head) otherwise; the widths sum to
\* the visible window and no copy reads outside the ring.
C22_OneCopyUnlessWrapped ==
  sgOp = "composite" =>
    /\ CopiesWithinRing
    /\ IF writeColumn >= VisibleCols \/ writeColumn = 0
       THEN Len(blits) = 1 /\ blits[1][3] = 0
       ELSE TailThenHead

\* A composite of a ring that has wrapped, drawn with two copies.
C22_Witness ==
  /\ sgOp = "composite"
  /\ written > SPECTROGRAM_WIDTH
  /\ writeColumn > 0
  /\ Len(blits) = 2

(***************************************************************************)
(* Frame processor: smoothing and peak hold, frame by frame                *)
(***************************************************************************)

\* A step that processes a frame in the library or the composable.
FrameStep == op' = "frame" /\ smoothedLinear # Null

\* The mean over the bins binStart .. binEnd of fastDbToLinear of each bin,
\* for a frame that holds `base` in every bin but `toneBin`.
MeanLinear(frame, binStart, binEnd) ==
  LET count == binEnd - binStart + 1
      inBand == frame.toneBin >= binStart /\ frame.toneBin <= binEnd
  IN  (IF inBand
       THEN (count - 1) * fastDbToLinear(frame.base) + fastDbToLinear(frame.tone)
       ELSE count * fastDbToLinear(frame.base)) \div count

\* smoothedLinear[i] * extraSmoothing + max(avgLinear, minLinear) * (1 - extraSmoothing),
\* raised to minLinear.
SmoothedValue(previous, extraSmoothing, avgLinear, floor) ==
  Max(floor,
      (previous * extraSmoothing[1]
         + Max(avgLinear, floor) * (extraSmoothing[2] - extraSmoothing[1]))
        \div extraSmoothing[2])

\* C23: for every band and every frame the new smoothedLinear[i] is
\* max(minLinear, smoothedLinear[i] * extraSmoothing
\*                + max(avgLinear, minLinear) * (1 - extraSmoothing)),
\* avgLinear being the mean of the converted bins of the band; extraSmoothing
\* 0.5, previous 0.01 and average 0.04 give 0.025.
C23_Step ==
  /\ SmoothedValue(10, <<1, 2>>, 40, 1) = 25
  /\ FrameStep =>
       \A i \in DOMAIN smoothedLinear :
         smoothedLinear'[i] =
           SmoothedValue(smoothedLinear[i], params'.extraSmoothing,
                         MeanLinear(lastFrame'[1], binStarts[i], binEnds[i]), minLinear)

C23_SmoothingFormula == [][C23_Step]_vars

\* A frame processed with extraSmoothing 1/2 left a band strictly between the
\* floor it came from and the frame's average, in a band of more than eight
\* bins that holds the tone.
C23_Witness ==
  /\ op = "frame"
  /\ params.extraSmoothing = <<1, 2>>
  /\ \E i \in DOMAIN smoothedLinear :
       /\ binEnds[i] - binStarts[i] + 1 > 8
       /\ lastFrame[1].toneBin >= binStarts[i] /\ lastFrame[1].toneBin <= binEnds[i]
       /\ smoothedLinear[i] > minLinear
       /\ smoothedLinear[i] < FrameAverage(i)

\* Peak hold is enabled for the frame being processed.
HoldEnabledNext == IF impl = "composable" THEN cachedPeakHold ELSE params'.peakHold

\* The three transitions of a band's peak and hold counter.
PeakTransition(newSmoothed, peak, counter, holdFrames, decay, floor) ==
  IF newSmoothed > peak THEN <<newSmoothed, holdFrames>>
  ELSE IF counter > 0 THEN <<peak, counter - 1>>
  ELSE <<Max((peak * decay[1]) \div decay[2], floor), 0>>

\* In the library and the composable each band takes the transition that the
\* new smoothed value, the peak and the counter select.
C24_LinearStep ==
  (FrameStep /\ HoldEnabledNext) =>
    \A i \in DOMAIN peaksLinear :
      <<peaksLinear'[i], peakHoldCounters'[i]>> =
        PeakTransition(smoothedLinear'[i], peaksLinear[i], peakHoldCounters[i],
                       HoldFrames(params'), params'.peakDecay, minLinear)

\* In the composable that smooths decibels: a band whose peak the previous
\* frame raised, and which the new smoothed value does not exceed, is in its
\* hold time and keeps its peak.
C24_DecibelStep ==
  (decOp' = "frame" /\ decPeakHold) =>
    \A i \in decRaised :
      smoothedData'[i] <= peakLevels[i] => peakLevels'[i] = peakLevels[i]

\* C24: with peak hold enabled each band takes exactly one of three
\* transitions per frame: a new peak with the counter reset to peakHoldFrames,
\* a hold tick that leaves the peak unchanged, or a decay to
\* max(peak * peakDecay, minLinear) with the counter at 0.
C24_ThreeTransitions == [][C24_LinearStep /\ C24_DecibelStep]_vars

\* The same for the library and the composable that smooths linear power.
C24_LinearTransitions == [][C24_LinearStep]_vars

\* Peak hold was enabled for the frame just processed.
HoldEnabledNow == IF impl = "composable" THEN cachedPeakHold ELSE params.peakHold

\* C27: with peak hold enabled, after every processed frame the peak of each
\* band is at least the band's smoothed value of that frame, also on frames
\* where the peak decays.
C27_PeakAboveSmoothed ==
  (op = "frame" /\ HoldEnabledNow) =>
    \A i \in DOMAIN peaksLinear : peaksLinear[i] >= smoothedLinear[i]

\* The same on the frames that set a new peak or count the hold down: only a
\* decay can leave the peak below the smoothed value.
C27_Step ==
  (FrameStep /\ HoldEnabledNext) =>
    \A i \in DOMAIN peaksLinear :
      (smoothedLinear'[i] > peaksLinear[i] \/ peakHoldCounters[i] > 0)
        => peaksLinear'[i] >= smoothedLinear'[i]

C27_PeakAboveSmoothedUnlessDecayed == [][C27_Step]_vars

\* The peakHoldFrames the frame processor works with: the constant of the
\* composable, the params of the latest process() call in the library.
HoldFramesNow == IF impl = "composable" THEN PEAK_HOLD_FRAMES ELSE params.peakHoldFrames

CountersWithin(limit) ==
  peakHoldCounters # Null =>
    \A i \in DOMAIN peakHoldCounters :
      peakHoldCounters[i] >= 0 /\ peakHoldCounters[i] <= limit

\* A frame processed with peak hold disabled keeps the peaks and the counters.
DisabledFrameStep ==
  (FrameStep /\ ~HoldEnabledNext) =>
    /\ peaksLinear' = peaksLinear
    /\ peakHoldCounters' = peakHoldCounters

\* updatePeakHold(false) fills the peak arrays, once they exist, with the floor.
ResetStep ==
  (op' = "updatePeakHold" /\ ~cachedPeakHold' /\ peaksLinear # Null /\ peaksDb # Null) =>
    /\ \A i \in DOMAIN peaksLinear' : peaksLinear'[i] = minLinear
    /\ \A i \in DOMAIN peaksDb' : peaksDb'[i] = params.minDb

\* A frame never lifts a counter above the peakHoldFrames it was processed with:
\* a counter already above it only counts down.
CounterStep ==
  FrameStep =>
    \A i \in DOMAIN peakHoldCounters' :
      /\ peakHoldCounters'[i] >= 0
      /\ peakHoldCounters'[i] <= Max(peakHoldCounters[i], HoldFramesNow')

\* C28: in every reachable state 0 <= peakHoldCounters[i] <= peakHoldFrames for
\* every band; a frame processed with peak hold disabled leaves peaksLinear and
\* peakHoldCounters unchanged; updatePeakHold(false) resets every peak to the
\* floor (minLinear / minDb).
C28_CountersBounded ==
  [](smoothedLinear # Null => CountersWithin(HoldFramesNow))
    /\ [][DisabledFrameStep /\ ResetStep]_vars

\* C28 with the bound that holds when peakHoldFrames changes between the frames
\* of the library: counters are never negative, never above PEAK_HOLD_FRAMES
\* in the composable, and a frame leaves each counter at most at the larger
\* of its old value and the peakHoldFrames of that frame.
C28_CountersBoundedByFrame ==
  []((impl = "composable" => CountersWithin(PEAK_HOLD_FRAMES)) /\ CountersWithin(65535))
    /\ [][CounterStep /\ DisabledFrameStep /\ ResetStep]_vars

\* A reset during a hold: updatePeakHold(false) has put every peak at the
\* floor while a counter set by a louder frame is still counting.
C28_Witness ==
  /\ op = "updatePeakHold" /\ ~cachedPeakHold
  /\ peaksLinear # Null
  /\ \A i \in DOMAIN peaksLinear : peaksLinear[i] = minLinear
  /\ \E i \in DOMAIN peakHoldCounters : peakHoldCounters[i] = PEAK_HOLD_FRAMES

(***************************************************************************)
(*                  THE ROWS OF A SPECTROGRAM COLUMN                       *)
(***************************************************************************)

\* Of a renderSpectrogramColumn call: every row reads a band of the band
\* data and stores an index of the 256-entry colour table, and a single band
\* is read by every row.
RowsInRange ==
  \A y \in DOMAIN fnResult :
    /\ fnResult[y].bandIndex \in 0 .. (fnArgs[1] - 1)
    /\ fnResult[y].lutIndex \in 0 .. 255
    /\ fnArgs[1] < 2 => fnResult[y].bandIndex = 0

\* With two rows or more: the top row reads the highest band, the bottom row
\* band 0.
RowsTopToBottom ==
  fnArgs[2] >= 2 =>
    /\ fnResult[0].bandIndex = fnArgs[1] - 1
    /\ fnResult[fnArgs[2] - 1].bandIndex = 0

\* C25: for every column write with bandCount >= 1, either frequency scale
\* and every row y in [0, height), the band index read lies in
\* [0, bandCount - 1] (top row the highest band, bottom row band 0), the
\* colour-table index lies in [0, 255], and with bandCount < 2 every row reads
\* band 0.
C25_RowsInRange ==
  fnOp = "renderSpectrogramColumn" => (RowsInRange /\ RowsTopToBottom)

\* The same for heights of two rows or more.
C25_RowsInRangeFromTwoRows ==
  (fnOp = "renderSpectrogramColumn" /\ fnArgs[2] >= 2) => (RowsInRange /\ RowsTopToBottom)

(***************************************************************************)
(*                 THE GEOMETRY A renderRta CALL DRAWS WITH                *)
(***************************************************************************)

\* The x coordinates and bar widths of the cache are those a renderer without
\* a cache computes for the viewport and the band list k[5].
GeometryOf(c, k) ==
  \A i \in DOMAIN k[5] :
    /\ c.xCenters[i] = FreqX(k[5][i].freqCenter, k[1], k[3], k[4])
    /\ c.xStarts[i] = FreqX(k[5][i].freqStart, k[1], k[3], k[4])
    /\ c.barWidths[i] =
         Max(1000, FreqX(k[5][i].freqEnd, k[1], k[3], k[4])
                   - FreqX(k[5][i].freqStart, k[1], k[3], k[4]) - 1000)

\* C26: for every sequence of renderRta calls with arbitrary viewports and
\* band lists, the xStarts, xCenters and barWidths a call draws with equal the
\* values computed without a cache from the band list passed to that call.
C26_GeometryOfCall ==
  (rOp = "renderRta" /\ call # Null) =>
    /\ DOMAIN cache[1].xStarts = DOMAIN call[5]
    /\ GeometryOf(cache[1], call)

\* The geometry a call draws with is that of the call's viewport and of a
\* band list of the call's length.
C26_GeometryOfLength ==
  (rOp = "renderRta" /\ call # Null) =>
    \E bandList \in GeoBandLists :
      /\ DOMAIN bandList = DOMAIN call[5]
      /\ GeometryOf(cache[1], <<call[1], call[2], call[3], call[4], bandList>>)

\* C29: under any interleaving of concurrent ensureMetadataWasmLoaded calls the
\* init function is invoked at most once, every caller whose promise resolved
\* holds the same module, and setMetadataWasm was called with that module
\* before the promise of any caller resolved.
C29_LoadedOnce ==
  /\ initCalls <= 1
  /\ \A c \in Callers :
       callerPc[c] = "fulfilled" =>
         /\ setCalls >= 1
         /\ ~RequireWasmThrows
         /\ callerModule[c] = wasmModule
         /\ \A d \in Callers : callerPc[d] = "fulfilled" => callerModule[d] = callerModule[c]

\* Every caller holds the module, though they passed different init functions
\* and one of them called only after the load had started.
C29_Witness ==
  /\ \A c \in Callers : callerPc[c] = "fulfilled"
  /\ \E c, d \in Callers : callerInit[c] # callerInit[d] /\ callerInit[d] # initModule
  /\ initCalls = 1

\* The number of places that hold the track.
Places(trackId) ==
  Cardinality({k \in DOMAIN queueTracks : queueTracks[k] = trackId})
    + Cardinality({k \in DOMAIN historyTracks : historyTracks[k] = trackId})
    + (IF currentTrack = trackId THEN 1 ELSE 0)

Conserved == \A trackId \in TrackIds : Places(trackId) = (IF trackId <= tracksAdded THEN 1 ELSE 0)

\* moveQueueTrack leaves the queue as it is or exchanges two neighbours, and
\* touches nothing else.
AdjacentSwapStep ==
  playlistOp'[1] = "moveQueueTrack" =>
    /\ historyTracks' = historyTracks /\ currentTrack' = currentTrack
    /\ \/ queueTracks' = queueTracks
       \/ \E k \in 1 .. (Len(queueTracks) - 1) :
            /\ queueTracks[k] = playlistOp'[2] \/ queueTracks[k + 1] = playlistOp'[2]
            /\ queueTracks' = [queueTracks EXCEPT ![k] = queueTracks[k + 1],
                                                  ![k + 1] = queueTracks[k]]

\* C30: playlist conservation. Under any sequence of handleNextTrack,
\* handlePreviousTrack, handleSelectTrack, moveQueueTrack, handlePlay and the
\* ended signal every track id that was added is in exactly one of queue,
\* history and currentTrack, none is lost or duplicated, and moveQueueTrack
\* only swaps two adjacent queue entries.
C30_Conservation == [](Conserved) /\ [][AdjacentSwapStep]_vars

\* Every track was added, one was played and is in the history, another is
\* the current one, and moveQueueTrack has just moved the second track of the
\* queue up to the first place.
C30_Witness ==
  /\ tracksAdded = MaxTracks
  /\ Len(historyTracks) >= 1 /\ currentTrack # NoTrack
  /\ playlistOp[1] = "moveQueueTrack" /\ playlistOp[3] = "up" /\ playlistOp[4] = 2
  /\ queueTracks[1] = playlistOp[2]

====
